---------------------------- MODULE Spec2Model ----------------------------
(***************************************************************************)
(* Ride Analytics Engine of santander-cycle-stats: the station resolver,   *)
(* the route and station aggregators and the histogram binning, modelled   *)
(* from the TypeScript sources.                                            *)
(*                                                                         *)
(* Conventions.  A JavaScript string is a sequence of one-character        *)
(* strings.  A nullable value is Null (the empty tuple) or Some(v), the    *)
(* one-element tuple <<v>>.  A Map is the sequence of its [key, value]     *)
(* entries in insertion order, which is the order Map.values() iterates.   *)
(***************************************************************************)
EXTENDS Integers, Sequences, FiniteSets, TLC

VARIABLES
    stations,       \* the station directory (Station[]) handed to the engine
    address,        \* resolver under test: the address argument
    found,          \* result of findStationByName of the two tables
    foundStats,     \* result of findStationByName of StatsCards
    resolved,       \* which of the two resolver copies have run
    rides,          \* the ride list (Ride[]) handed to the engine
    routeStats,     \* RoutesTable: the routeStats memo (RouteStats[])
    stationStats,   \* StationsTable: the stationStats memo (StationStats[])
    journeyBucket,  \* JourneyTimeHistogram: the bucketWidth state
    journeyChart,   \* JourneyTimeHistogram: the chartData memo
    timeZone,       \* the time zone of the browser the app runs in
    calendarBucket, \* RidesOverTimeHistogram: the bucketWidth state
    calendarChart,  \* RidesOverTimeHistogram: the chartData memo
    stats,          \* StatsCards: the stats memo
    serverRides,    \* the ride history the TfL server holds for the member
    rideSummaries,  \* window.__rideSummaries
    rideDetails,    \* window.__rideDetails
    stopFetching,   \* window.__stopFetching
    running,        \* the scraper script that is running: "none", "A" or "B"
    pc,             \* where the running script waits
    loc,            \* the local variables of the running script
    attempt,        \* withRetries: the attempt counter
    lastFailure,    \* withRetries: the response that failed the last attempt
    backoffs,       \* withRetries: the backoffs slept in the current call
    requests,       \* the requests the current run has issued, in order
    runStart,       \* what the current run found when it started
    lastRun,        \* how the previous run ended
    runCount,       \* script runs started so far
    faults,         \* failed responses so far
    storage,        \* localStorage: the item under STORAGE_KEY
    currentStep,    \* App: the step shown
    paste,          \* Step3PasteData: its state while it is mounted
    parsedRides,    \* the list that Parse & Validate last accepted
    sortField,      \* RoutesTable / StationsTable: the sortField state
    sortDirection,  \* RoutesTable / StationsTable: the sortDirection state
    selectedRoutes, \* Step4Preview: the keys of the selected routes
    selectedStations, \* Step4Preview: the ids of the selected stations
    initializedRef, \* RoutesTable / StationsTable: initializedRef.current
    autoSelections, \* auto-selections of each table since it was mounted
    sessions        \* two sessions of the app side by side, and their requests

resolverVars == <<address, found, foundStats, resolved>>
tableVars == <<routeStats, stationStats>>
journeyVars == <<journeyBucket, journeyChart>>
calendarVars == <<timeZone, calendarBucket, calendarChart>>
statsVars == <<stats>>
windowVars == <<rideSummaries, rideDetails, stopFetching>>
scriptVars == <<running, pc, loc, attempt, lastFailure, backoffs>>
historyVars == <<requests, runStart, lastRun, runCount, faults>>
scraperVars == <<serverRides, windowVars, scriptVars, historyVars>>
appVars == <<storage, currentStep, paste, parsedRides>>
viewVars == <<sortField, sortDirection, selectedRoutes, selectedStations,
              initializedRef, autoSelections>>
uiVars == <<viewVars, sessions>>
vars == <<stations, rides, resolverVars, tableVars, journeyVars, calendarVars,
          statsVars, scraperVars, appVars, uiVars>>

Null == <<>>
Some(v) == <<v>>

-----------------------------------------------------------------------------
(* JavaScript string primitives *)

Whitespace == {" "}
Digit == {"0", "1", "2", "3", "4", "5", "6", "7", "8", "9"}
\* the lowercase form of each uppercase letter; other characters are unchanged
LowerOf ==
    [A |-> "a", B |-> "b", C |-> "c", D |-> "d", E |-> "e", F |-> "f",
     G |-> "g", H |-> "h", I |-> "i", J |-> "j", K |-> "k", L |-> "l",
     M |-> "m", N |-> "n", O |-> "o", P |-> "p", Q |-> "q", R |-> "r",
     S |-> "s", T |-> "t", U |-> "u", V |-> "v", W |-> "w", X |-> "x",
     Y |-> "y", Z |-> "z"]

toLowerChar(c) == IF c \in DOMAIN LowerOf THEN LowerOf[c] ELSE c

\* String.prototype.toLowerCase
toLowerCase(s) == [i \in 1..Len(s) |-> toLowerChar(s[i])]

RECURSIVE trimStart(_)
trimStart(s) ==
    IF s # <<>> /\ Head(s) \in Whitespace THEN trimStart(Tail(s)) ELSE s

RECURSIVE trimEnd(_)
trimEnd(s) ==
    IF s # <<>> /\ s[Len(s)] \in Whitespace
    THEN trimEnd(SubSeq(s, 1, Len(s) - 1))
    ELSE s

\* String.prototype.trim
trim(s) == trimEnd(trimStart(s))

\* String.prototype.includes: s.includes(t)
includes(s, t) ==
    \E i \in 0..(Len(s) - Len(t)) : SubSeq(s, i + 1, i + Len(t)) = t

\* the length of the digit run of the pattern /\d{6}/
TerminalDigits == 6

\* s.match(/\d{6}/): the first run of six digits, as Some(run), or Null
matchTerminal(s) ==
    LET at == {i \in 1..(Len(s) - TerminalDigits + 1) :
                  \A k \in 0..(TerminalDigits - 1) : s[i + k] \in Digit}
    IN  IF at = {} THEN Null
        ELSE LET first == CHOOSE i \in at : \A j \in at : i <= j
             IN  Some(SubSeq(s, first, first + TerminalDigits - 1))

\* a character of the separator class [,\s]
IsSeparator(c) == c = "," \/ c \in Whitespace

\* s.split(/[,\s]+/): a run of separators ends the current token, so a
\* leading or trailing run yields an empty token, and "" splits to [""]
RECURSIVE splitFrom(_, _, _, _)
splitFrom(s, i, cur, inRun) ==
    IF i > Len(s) THEN <<cur>>
    ELSE IF IsSeparator(s[i])
         THEN IF inRun THEN splitFrom(s, i + 1, <<>>, TRUE)
                       ELSE <<cur>> \o splitFrom(s, i + 1, <<>>, TRUE)
         ELSE splitFrom(s, i + 1, Append(cur, s[i]), FALSE)

split(s) == splitFrom(s, 1, <<>>, FALSE)

-----------------------------------------------------------------------------
(* Station Resolver: findStationByName *)

\* addressWords keeps the tokens with w.length > MinWordLength
MinWordLength == 2
\* a station is accepted with matchingWords.length >= MinMatchingWords
MinMatchingWords == 2

\* the condition of the first loop: substring containment either way
ExactMatches(normalizedAddress, station) ==
    LET stationName == toLowerCase(station.name)
    IN  includes(normalizedAddress, stationName)
        \/ includes(stationName, normalizedAddress)

\* for (const station of stations) { if (...) return station }
RECURSIVE ExactLoop(_, _, _)
ExactLoop(normalizedAddress, dir, i) ==
    IF i > Len(dir) THEN Null
    ELSE IF ExactMatches(normalizedAddress, dir[i]) THEN Some(dir[i])
    ELSE ExactLoop(normalizedAddress, dir, i + 1)

\* stations.find((s) => s.terminalName === terminal)
RECURSIVE FindTerminal(_, _, _)
FindTerminal(terminal, dir, i) ==
    IF i > Len(dir) THEN Null
    ELSE IF dir[i].terminalName = terminal THEN Some(dir[i])
    ELSE FindTerminal(terminal, dir, i + 1)

TerminalStage(normalizedAddress, dir) ==
    LET terminalMatch == matchTerminal(normalizedAddress)
    IN  IF terminalMatch = Null THEN Null
        ELSE FindTerminal(terminalMatch[1], dir, 1)

\* normalizedAddress.split(/[,\s]+/).filter((w) => w.length > 2)
AddressWords(normalizedAddress) ==
    SelectSeq(split(normalizedAddress), LAMBDA w : Len(w) > MinWordLength)

\* station.name.toLowerCase().split(/[,\s]+/): not filtered by length
StationWords(station) == split(toLowerCase(station.name))

\* stationWords.some((sw) => sw.includes(aw) || aw.includes(sw))
WordMatches(aw, stationWords) ==
    \E k \in 1..Len(stationWords) :
        includes(stationWords[k], aw) \/ includes(aw, stationWords[k])

MatchingWords(addressWords, station) ==
    LET stationWords == StationWords(station)
    IN  SelectSeq(addressWords, LAMBDA aw : WordMatches(aw, stationWords))

RECURSIVE PartialLoop(_, _, _)
PartialLoop(addressWords, dir, i) ==
    IF i > Len(dir) THEN Null
    ELSE IF Len(MatchingWords(addressWords, dir[i])) >= MinMatchingWords
         THEN Some(dir[i])
    ELSE PartialLoop(addressWords, dir, i + 1)

\* a plausible slip: the terminal code is tried before the substring loop
findStationByName_TerminalFirst(addr, dir) ==
    IF addr = Null \/ addr[1] = <<>> THEN Null
    ELSE LET normalizedAddress == trim(toLowerCase(addr[1]))
             byTerminal == TerminalStage(normalizedAddress, dir)
             exact == ExactLoop(normalizedAddress, dir, 1)
         IN  IF byTerminal # Null THEN byTerminal
             ELSE IF exact # Null THEN exact
             ELSE PartialLoop(AddressWords(normalizedAddress), dir, 1)

\* a plausible slip: only null is rejected, the empty string goes on
findStationByName_NullOnly(addr, dir) ==
    IF addr = Null THEN Null
    ELSE LET normalizedAddress == trim(toLowerCase(addr[1]))
             exact == ExactLoop(normalizedAddress, dir, 1)
             byTerminal == TerminalStage(normalizedAddress, dir)
         IN  IF exact # Null THEN exact
             ELSE IF byTerminal # Null THEN byTerminal
             ELSE PartialLoop(AddressWords(normalizedAddress), dir, 1)

\* findStationByName of RoutesTable and StationsTable (the two copies are
\* the same text).  addr is Null or Some(string); !address rejects both
\* null and "".
findStationByName(addr, dir) ==
    IF addr = Null \/ addr[1] = <<>> THEN Null
    ELSE LET normalizedAddress == trim(toLowerCase(addr[1]))
             exact == ExactLoop(normalizedAddress, dir, 1)
             byTerminal == TerminalStage(normalizedAddress, dir)
         IN  IF exact # Null THEN exact
             ELSE IF byTerminal # Null THEN byTerminal
             ELSE PartialLoop(AddressWords(normalizedAddress), dir, 1)

\* findStationByName of StatsCards: the same chain behind one more guard,
\* stations.length === 0
findStationByNameStats(addr, dir) ==
    IF addr = Null \/ addr[1] = <<>> \/ Len(dir) = 0 THEN Null
    ELSE LET normalizedAddress == trim(toLowerCase(addr[1]))
             exact == ExactLoop(normalizedAddress, dir, 1)
             byTerminal == TerminalStage(normalizedAddress, dir)
         IN  IF exact # Null THEN exact
             ELSE IF byTerminal # Null THEN byTerminal
             ELSE PartialLoop(AddressWords(normalizedAddress), dir, 1)

-----------------------------------------------------------------------------
(* calculateDistance *)

EarthRadiusKm == 6371
\* pi / 180 in millionths, and the cosine of London's latitude in thousandths
MicroRadPerDegree == 17453
CosLatitudeMilli == 623

Abs(n) == IF n < 0 THEN -n ELSE n

RECURSIVE NewtonSqrt(_, _)
NewtonSqrt(n, x) ==
    LET y == (x + n \div x) \div 2
    IN  IF y >= x THEN x ELSE NewtonSqrt(n, y)

\* Math.sqrt on the naturals, rounded down
ISqrt(n) == IF n = 0 THEN 0 ELSE NewtonSqrt(n, n)

\* The haversine distance in metres between two points given in thousandths
\* of a degree.  Across a docking network the angles are small, so that
\* a = sin^2(dLat/2) + cos(lat1) cos(lat2) sin^2(dLon/2) is taken as
\* (dLat/2)^2 + cos^2(lat) (dLon/2)^2 and c = 2 atan2(sqrt a, sqrt(1-a)) as
\* 2 sqrt a; on one meridian (dLon = 0) the result is R * dLat, as in the code.
calculateDistance(lat1, lon1, lat2, lon2) ==
    LET metresPerDegree == (EarthRadiusKm * MicroRadPerDegree) \div 1000
        north == (metresPerDegree * Abs(lat2 - lat1)) \div 1000
        east == (((metresPerDegree * Abs(lon2 - lon1)) \div 1000) * CosLatitudeMilli) \div 1000
    IN  ISqrt(north * north + east * east)

-----------------------------------------------------------------------------
(* Route Aggregator: the routeStats memo of RoutesTable *)

MsPerMinute == 60000

\* Math.round(n / d) for d > 0: the nearest integer, halves towards +infinity
MathRound(n, d) == (2 * n + d) \div (2 * d)

\* Map.get: the position of the entry with this key, 0 when there is none
RECURSIVE MapIndexFrom(_, _, _)
MapIndexFrom(map, key, i) ==
    IF i > Len(map) THEN 0
    ELSE IF map[i].key = key THEN i
    ELSE MapIndexFrom(map, key, i + 1)

MapIndex(map, key) == MapIndexFrom(map, key, 1)

\* Map.set: replaces the value of an existing key in place, else appends
MapSet(map, key, value) ==
    IF MapIndex(map, key) # 0
    THEN [map EXCEPT ![MapIndex(map, key)].value = value]
    ELSE Append(map, [key |-> key, value |-> value])

\* Array.from(map.values())
RECURSIVE MapValues(_)
MapValues(map) ==
    IF map = <<>> THEN <<>> ELSE <<Head(map).value>> \o MapValues(Tail(map))

\* `${startStation.id}-${endStation.id}`
RouteKey(startStation, endStation) == startStation.id \o <<"-">> \o endStation.id

\* durationMinutes of one ride: null unless both timestamps are there
RideDurationMinutes(ride) ==
    IF ride.startTimeMs # Null /\ ride.endTimeMs # Null
    THEN Some(MathRound(ride.endTimeMs[1] - ride.startTimeMs[1], MsPerMinute))
    ELSE Null

\* a plausible slip: count++ placed inside the duration branch
UpdateExistingRoute_CountWithDuration(existing, durationMinutes) ==
    IF durationMinutes = Null THEN existing
    ELSE [existing EXCEPT !.count = @ + 1]

\* a plausible slip: a ride without duration resets the duration fields
UpdateExistingRoute_ResetsDuration(existing, durationMinutes) ==
    [existing EXCEPT !.count = @ + 1,
                     !.avgDurationMinutes = durationMinutes,
                     !.minDurationMinutes = durationMinutes,
                     !.maxDurationMinutes = durationMinutes]

\* a plausible slip: the old average is weighted by the new count
UpdateExistingRoute_WeightCount(existing, durationMinutes) ==
    LET count == existing.count + 1
    IN  IF durationMinutes = Null THEN [existing EXCEPT !.count = count]
        ELSE LET d == durationMinutes[1]
             IN  [existing EXCEPT
                    !.count = count,
                    !.avgDurationMinutes =
                        IF @ = Null THEN Some(d)
                        ELSE Some(MathRound(@[1] * count + d, count)),
                    !.minDurationMinutes =
                        IF @ = Null \/ d < @[1] THEN Some(d) ELSE @,
                    !.maxDurationMinutes =
                        IF @ = Null \/ d > @[1] THEN Some(d) ELSE @]

\* the `if (existing)` branch: count++, then the running mean, min and max
UpdateExistingRoute(existing, durationMinutes) ==
    LET count == existing.count + 1
    IN  IF durationMinutes = Null THEN [existing EXCEPT !.count = count]
        ELSE LET d == durationMinutes[1]
             IN  [existing EXCEPT
                    !.count = count,
                    !.avgDurationMinutes =
                        IF @ = Null THEN Some(d)
                        ELSE Some(MathRound(@[1] * (count - 1) + d, count)),
                    !.minDurationMinutes =
                        IF @ = Null \/ d < @[1] THEN Some(d) ELSE @,
                    !.maxDurationMinutes =
                        IF @ = Null \/ d > @[1] THEN Some(d) ELSE @]

\* the `else` branch: the first ride of a route
NewRoute(startStation, endStation, durationMinutes) ==
    [startStation |-> startStation,
     endStation |-> endStation,
     count |-> 1,
     avgDurationMinutes |-> durationMinutes,
     minDurationMinutes |-> durationMinutes,
     maxDurationMinutes |-> durationMinutes,
     distanceKm |-> calculateDistance(startStation.lat, startStation.long,
                                      endStation.lat, endStation.long)]

\* the body of rides.forEach in routeStats
RouteStep(routesMap, ride, dir) ==
    LET startStation == findStationByName(ride.startAddress, dir)
        endStation == findStationByName(ride.endAddress, dir)
    IN  IF startStation # Null /\ endStation # Null
        THEN LET routeKey == RouteKey(startStation[1], endStation[1])
                 at == MapIndex(routesMap, routeKey)
                 durationMinutes == RideDurationMinutes(ride)
             IN  IF at # 0
                 THEN [routesMap EXCEPT
                         ![at].value = UpdateExistingRoute(@, durationMinutes)]
                 ELSE Append(routesMap,
                         [key |-> routeKey,
                          value |-> NewRoute(startStation[1], endStation[1],
                                             durationMinutes)])
        ELSE routesMap

RECURSIVE RouteLoop(_, _, _, _)
RouteLoop(routesMap, rideList, dir, i) ==
    IF i > Len(rideList) THEN routesMap
    ELSE CHOOSE result \in
            {RouteLoop(next, rideList, dir, i + 1) :
                next \in {RouteStep(routesMap, rideList[i], dir)}} : TRUE

\* useMemo(() => {...}, [rides, stations]) of RoutesTable
RouteStatsMemo(rideList, dir) == MapValues(RouteLoop(<<>>, rideList, dir, 1))

-----------------------------------------------------------------------------
(* Station Aggregator: the stationStats memo of StationsTable *)

\* stations.forEach((station) => statsMap.set(station.id, {...zeros}))
RECURSIVE InitStatsMap(_, _, _)
InitStatsMap(statsMap, dir, i) ==
    IF i > Len(dir) THEN statsMap
    ELSE InitStatsMap(
            MapSet(statsMap, dir[i].id,
                   [station |-> dir[i], pickups |-> 0, dropoffs |-> 0,
                    total |-> 0, net |-> 0]),
            dir, i + 1)

\* stats.pickups++; stats.total++; stats.net++
CountPickup(statsMap, startStation) ==
    LET at == IF startStation = Null THEN 0 ELSE MapIndex(statsMap, startStation[1].id)
    IN  IF at = 0 THEN statsMap
        ELSE [statsMap EXCEPT ![at].value =
                [@ EXCEPT !.pickups = @ + 1, !.total = @ + 1, !.net = @ + 1]]

\* a plausible slip: the drop-off block copied from the pick-up block with
\* net++ left in
CountDropoff_NetUp(statsMap, endStation) ==
    LET at == IF endStation = Null THEN 0 ELSE MapIndex(statsMap, endStation[1].id)
    IN  IF at = 0 THEN statsMap
        ELSE [statsMap EXCEPT ![at].value =
                [@ EXCEPT !.dropoffs = @ + 1, !.total = @ + 1, !.net = @ + 1]]

\* a plausible slip: the drop-off block counts into pickups
CountDropoff_AsPickup(statsMap, endStation) ==
    LET at == IF endStation = Null THEN 0 ELSE MapIndex(statsMap, endStation[1].id)
    IN  IF at = 0 THEN statsMap
        ELSE [statsMap EXCEPT ![at].value =
                [@ EXCEPT !.pickups = @ + 1, !.total = @ + 1, !.net = @ - 1]]

\* stats.dropoffs++; stats.total++; stats.net--
CountDropoff(statsMap, endStation) ==
    LET at == IF endStation = Null THEN 0 ELSE MapIndex(statsMap, endStation[1].id)
    IN  IF at = 0 THEN statsMap
        ELSE [statsMap EXCEPT ![at].value =
                [@ EXCEPT !.dropoffs = @ + 1, !.total = @ + 1, !.net = @ - 1]]

\* the body of rides.forEach in stationStats
StationStep(statsMap, ride, dir) ==
    CHOOSE result \in
        {CountDropoff(counted, findStationByName(ride.endAddress, dir)) :
            counted \in {CountPickup(statsMap,
                                     findStationByName(ride.startAddress, dir))}} : TRUE

RECURSIVE StationLoop(_, _, _, _)
StationLoop(statsMap, rideList, dir, i) ==
    IF i > Len(rideList) THEN statsMap
    ELSE CHOOSE result \in
            {StationLoop(next, rideList, dir, i + 1) :
                next \in {StationStep(statsMap, rideList[i], dir)}} : TRUE

\* useMemo(() => {...}, [rides, stations]) of StationsTable
StationStatsMemo(rideList, dir) ==
    MapValues(StationLoop(InitStatsMap(<<>>, dir, 1), rideList, dir, 1))

-----------------------------------------------------------------------------
(* Time-Bucketing Engine, duration axis: chartData of JourneyTimeHistogram *)

MsPerSecond == 1000
SecondsPerMinute == 60

\* Math.floor(n / d) and Math.ceil(n / d) for d > 0
MathFloor(n, d) == n \div d
MathCeil(n, d) == -((-n) \div d)

\* bucketWidthSeconds: Record<BucketWidth, number>
bucketWidthSeconds == [15s |-> 15, 30s |-> 30, 1m |-> 60, 2m |-> 120, 5m |-> 300]

JourneyBucketWidths == DOMAIN bucketWidthSeconds

\* a plausible slip: no filter, a missing timestamp read as 0 by (x || 0)
ridesWithDuration_NullAsZero(rideList) ==
    [i \in 1..Len(rideList) |->
        [rideList[i] EXCEPT !.startTimeMs = IF @ = Null THEN Some(0) ELSE @,
                            !.endTimeMs = IF @ = Null THEN Some(0) ELSE @]]

\* rides.filter((r) => r.startTimeMs !== null && r.endTimeMs !== null)
ridesWithDuration(rideList) ==
    SelectSeq(rideList, LAMBDA r : r.startTimeMs # Null /\ r.endTimeMs # Null)

\* Math.floor(((r.endTimeMs || 0) - (r.startTimeMs || 0)) / 1000)
durationsSeconds(withDuration) ==
    [i \in 1..Len(withDuration) |->
        MathFloor(withDuration[i].endTimeMs[1] - withDuration[i].startTimeMs[1],
                  MsPerSecond)]

\* Math.min(...xs) and Math.max(...xs) of a non-empty array
MathMin(xs) == CHOOSE x \in {xs[i] : i \in 1..Len(xs)} : \A k \in 1..Len(xs) : x <= xs[k]
MathMax(xs) == CHOOSE x \in {xs[i] : i \in 1..Len(xs)} : \A k \in 1..Len(xs) : x >= xs[k]

\* Math.ceil((max - min) / bucketSizeSeconds) + 1
JourneyNumBins(minDurationSeconds, maxDurationSeconds, bucketSizeSeconds) ==
    MathCeil(maxDurationSeconds - minDurationSeconds, bucketSizeSeconds) + 1

\* the label of bin i (from 0), as the parts the template strings print:
\* `${from}s-${to}s`, `${from} min` or `${from}-${to} min`
JourneyBinLabel(bucketWidth, minDurationSeconds, i) ==
    LET binStartSeconds == minDurationSeconds + i * bucketWidthSeconds[bucketWidth]
        binEndSeconds == binStartSeconds + bucketWidthSeconds[bucketWidth]
        binStartMinutes == MathFloor(binStartSeconds, SecondsPerMinute)
        binEndMinutes == MathFloor(binEndSeconds, SecondsPerMinute)
    IN  IF bucketWidth \in {"15s", "30s"}
        THEN [unit |-> "s", from |-> binStartSeconds, to |-> binEndSeconds]
        ELSE IF bucketWidth = "1m" \/ binStartMinutes = binEndMinutes
             THEN [unit |-> "min", from |-> binStartMinutes, to |-> binStartMinutes]
             ELSE [unit |-> "min", from |-> binStartMinutes, to |-> binEndMinutes]

\* a plausible slip: the bin index is taken from zero, not from the minimum
JourneyBinIndex_FromZero(durationSeconds, minDurationSeconds, bucketSizeSeconds, numBins) ==
    LET binIndex == MathFloor(durationSeconds, bucketSizeSeconds)
    IN  IF binIndex < numBins - 1 THEN binIndex ELSE numBins - 1

\* Math.min(Math.floor((d - min) / bucketSizeSeconds), numBins - 1)
JourneyBinIndex(durationSeconds, minDurationSeconds, bucketSizeSeconds, numBins) ==
    LET binIndex == MathFloor(durationSeconds - minDurationSeconds, bucketSizeSeconds)
    IN  IF binIndex < numBins - 1 THEN binIndex ELSE numBins - 1

\* durationsSeconds.forEach((d) => bins[...]++), bins 0-based in the code
\* and 1-based here
RECURSIVE JourneyCount(_, _, _, _, _, _)
JourneyCount(bins, durations, minDurationSeconds, bucketSizeSeconds, numBins, k) ==
    IF k > Len(durations) THEN bins
    ELSE LET at == JourneyBinIndex(durations[k], minDurationSeconds,
                                   bucketSizeSeconds, numBins) + 1
         IN  JourneyCount([bins EXCEPT ![at] = @ + 1], durations,
                          minDurationSeconds, bucketSizeSeconds, numBins, k + 1)

\* useMemo(() => {...}, [rides, bucketWidth]) of JourneyTimeHistogram:
\* null without a ride that has both timestamps, else the labels and the data
JourneyChartMemo(rideList, bucketWidth) ==
    LET withDuration == ridesWithDuration(rideList)
    IN  IF Len(withDuration) = 0 THEN Null
        ELSE LET durations == durationsSeconds(withDuration)
                 minDurationSeconds == MathMin(durations)
                 maxDurationSeconds == MathMax(durations)
                 bucketSizeSeconds == bucketWidthSeconds[bucketWidth]
                 numBins == JourneyNumBins(minDurationSeconds, maxDurationSeconds,
                                           bucketSizeSeconds)
             IN  Some([labels |-> [i \in 1..numBins |->
                                     JourneyBinLabel(bucketWidth, minDurationSeconds, i - 1)],
                       data |-> JourneyCount([i \in 1..numBins |-> 0], durations,
                                             minDurationSeconds, bucketSizeSeconds,
                                             numBins, 1)])

-----------------------------------------------------------------------------
(* JavaScript Date.  Epoch milliseconds of today do not fit the integers of  *)
(* the model checker, so a time value is counted in hours since the epoch:   *)
(* a timestamp t stands for t * 3,600,000 ms, 24 * 60 * 60 * 1000 ms is      *)
(* HoursPerDay, and the rides of the calendar histogram start on the hour.   *)

HoursPerDay == 24

\* the day number (days since 1970-01-01) of a civil date, month from 1
DaysFromCivil(year, month, day) ==
    LET y == IF month <= 2 THEN year - 1 ELSE year
        era == y \div 400
        yoe == y - era * 400
        mp == IF month > 2 THEN month - 3 ELSE month + 9
        doy == (153 * mp + 2) \div 5 + day - 1
        doe == yoe * 365 + yoe \div 4 - yoe \div 100 + doy
    IN  era * 146097 + doe - 719468

\* the civil date <<year, month from 1, day>> of a day number
CivilFromDays(days) ==
    LET z == days + 719468
        era == z \div 146097
        doe == z - era * 146097
        yoe == (doe - doe \div 1460 + doe \div 36524 - doe \div 146096) \div 365
        doy == doe - (365 * yoe + yoe \div 4 - yoe \div 100)
        mp == (5 * doy + 2) \div 153
        day == doy - (153 * mp + 2) \div 5 + 1
        month == IF mp < 10 THEN mp + 3 ELSE mp - 9
    IN  <<(yoe + era * 400) + (IF month <= 2 THEN 1 ELSE 0), month, day>>

\* a time value from a UTC date and hour
UtcTime(year, month, day, hour) == DaysFromCivil(year, month, day) * HoursPerDay + hour

\* Europe/London is one hour ahead of UTC in British Summer Time 2024, from
\* 31 March 01:00 UTC to 27 October 01:00 UTC, and in the British Standard
\* Time of 18 February 1968 to 31 October 1971 (02:00 UTC), which holds the
\* epoch (the model's rides lie in January 1970 or between the changes of
\* October 2023 and March 2025)
InSummerTime(t) ==
    \/ UtcTime(2024, 3, 31, 1) <= t /\ t < UtcTime(2024, 10, 27, 1)
    \/ UtcTime(1968, 2, 18, 2) <= t /\ t < UtcTime(1971, 10, 31, 2)

TimeZones == {"UTC", "Europe/London"}

\* the local offset from UTC, in hours, at time value t
OffsetAt(zone, t) == IF zone = "Europe/London" /\ InSummerTime(t) THEN 1 ELSE 0

\* LocalTime(t) of ECMAScript
LocalTime(zone, t) == t + OffsetAt(zone, t)

\* UTC(local) of ECMAScript: a local time that occurs twice is the earlier
\* instant, one that is skipped is read with the offset before the change
UTCOf(zone, local) == IF OffsetAt(zone, local - 1) = 1 THEN local - 1 ELSE local

LocalCivil(zone, t) == CivilFromDays(LocalTime(zone, t) \div HoursPerDay)

getFullYear(zone, t) == LocalCivil(zone, t)[1]
\* months count from 0
getMonth(zone, t) == LocalCivil(zone, t)[2] - 1
getDate(zone, t) == LocalCivil(zone, t)[3]
getHours(zone, t) == LocalTime(zone, t) % HoursPerDay
\* 0 is Sunday; 1 January 1970 was a Thursday
getDay(zone, t) == ((LocalTime(zone, t) \div HoursPerDay) + 4) % 7

\* MakeDay / MakeDate of ECMAScript on local fields: month and day overflow
\* are carried, the result is converted back to a time value
MakeLocal(zone, year, month0, day, hour) ==
    UTCOf(zone,
          (DaysFromCivil(year + month0 \div 12, (month0 % 12) + 1, 1) + day - 1)
              * HoursPerDay + hour)

setDate(zone, t, day) ==
    MakeLocal(zone, getFullYear(zone, t), getMonth(zone, t), day, getHours(zone, t))
\* setMonth(month, day)
setMonthDate(zone, t, month0, day) ==
    MakeLocal(zone, getFullYear(zone, t), month0, day, getHours(zone, t))
setMonth(zone, t, month0) == setMonthDate(zone, t, month0, getDate(zone, t))
setFullYear(zone, t, year) ==
    MakeLocal(zone, year, getMonth(zone, t), getDate(zone, t), getHours(zone, t))
\* setHours(0, 0, 0, 0)
setHoursZero(zone, t) ==
    MakeLocal(zone, getFullYear(zone, t), getMonth(zone, t), getDate(zone, t), 0)

-----------------------------------------------------------------------------
(* Time-Bucketing Engine, calendar axis: chartData of RidesOverTimeHistogram *)

CalendarBucketWidths == {"1d", "3d", "1w", "1m", "3m", "6m", "1y"}

\* Math.floor(daysSinceEpoch / 3) * 3
ThreeDayBinStart(t) == ((t \div HoursPerDay) \div 3) * 3

\* dayOfWeek === 0 ? 6 : dayOfWeek - 1
MondayOffset(zone, t) == IF getDay(zone, t) = 0 THEN 6 ELSE getDay(zone, t) - 1

\* getBinKey(date); the key strings are kept as their parts
getBinKey(zone, bucketWidth, date) ==
    CASE bucketWidth = "1d" ->
            <<getFullYear(zone, date), getMonth(zone, date), getDate(zone, date)>>
      [] bucketWidth = "3d" -> <<"d", ThreeDayBinStart(date)>>
      [] bucketWidth = "1w" ->
            LET monday == setHoursZero(zone,
                              setDate(zone, date,
                                      getDate(zone, date) - MondayOffset(zone, date)))
            IN  <<getFullYear(zone, monday), getMonth(zone, monday), getDate(zone, monday)>>
      [] bucketWidth = "1m" -> <<getFullYear(zone, date), getMonth(zone, date)>>
      [] bucketWidth = "3m" -> <<getFullYear(zone, date), "Q", getMonth(zone, date) \div 3>>
      [] bucketWidth = "6m" -> <<getFullYear(zone, date), "H", getMonth(zone, date) \div 6>>
      [] bucketWidth = "1y" -> <<getFullYear(zone, date)>>

\* rides.filter((r) => r.startTimeMs !== null), mapped to the timestamps
rideStartTimes(rideList) ==
    LET ridesWithStartTime == SelectSeq(rideList, LAMBDA r : r.startTimeMs # Null)
    IN  [i \in 1..Len(ridesWithStartTime) |-> ridesWithStartTime[i].startTimeMs[1]]

\* binCounts.get(key) || 0 after the counting loop over ridesWithStartTime
binCountOf(zone, bucketWidth, startTimes, key) ==
    Cardinality({i \in 1..Len(startTimes) :
                    getBinKey(zone, bucketWidth, startTimes[i]) = key})

\* getNextBinStartDate(currentDate)
getNextBinStartDate(zone, bucketWidth, currentDate) ==
    CASE bucketWidth = "1d" -> setDate(zone, currentDate, getDate(zone, currentDate) + 1)
      [] bucketWidth = "3d" -> setDate(zone, currentDate, getDate(zone, currentDate) + 3)
      [] bucketWidth = "1w" -> setDate(zone, currentDate, getDate(zone, currentDate) + 7)
      [] bucketWidth = "1m" -> setMonth(zone, currentDate, getMonth(zone, currentDate) + 1)
      [] bucketWidth = "3m" -> setMonth(zone, currentDate, getMonth(zone, currentDate) + 3)
      [] bucketWidth = "6m" -> setMonth(zone, currentDate, getMonth(zone, currentDate) + 6)
      [] bucketWidth = "1y" -> setFullYear(zone, currentDate, getFullYear(zone, currentDate) + 1)

\* "Round down to the start of the first bin"
firstBinStart(zone, bucketWidth, minDate) ==
    CASE bucketWidth = "1d" -> setHoursZero(zone, minDate)
      [] bucketWidth = "3d" -> ThreeDayBinStart(minDate) * HoursPerDay
      [] bucketWidth = "1w" ->
            setHoursZero(zone, setDate(zone, minDate,
                                       getDate(zone, minDate) - MondayOffset(zone, minDate)))
      [] bucketWidth = "1m" -> setHoursZero(zone, setDate(zone, minDate, 1))
      [] bucketWidth = "3m" ->
            setHoursZero(zone, setMonthDate(zone, minDate,
                                            (getMonth(zone, minDate) \div 3) * 3, 1))
      [] bucketWidth = "6m" ->
            setHoursZero(zone, setMonthDate(zone, minDate,
                                            (getMonth(zone, minDate) \div 6) * 6, 1))
      [] bucketWidth = "1y" -> setHoursZero(zone, setMonthDate(zone, minDate, 0, 1))

\* while (currentBinStart <= maxDate) { push; currentBinStart = next }
\* (next is bound by a set so that each turn computes it once)
RECURSIVE binStartLoop(_, _, _, _)
binStartLoop(zone, bucketWidth, currentBinStart, maxDate) ==
    IF currentBinStart <= maxDate
    THEN CHOOSE binStarts \in
            { <<currentBinStart>> \o binStartLoop(zone, bucketWidth, next, maxDate) :
                next \in {getNextBinStartDate(zone, bucketWidth, currentBinStart)} } :
            TRUE
    ELSE <<>>

\* binStartDates of a non-empty list of start times; minDate and maxDate are
\* the first and the last of the sorted timestamps
binStartDates(zone, bucketWidth, startTimes) ==
    binStartLoop(zone, bucketWidth,
                 firstBinStart(zone, bucketWidth, MathMin(startTimes)),
                 MathMax(startTimes))

\* the label of a bin, as the date parts toLocaleDateString("en-GB") and the
\* template strings print
calendarBinLabel(zone, bucketWidth, binStartDate) ==
    LET dm(t) == <<getDate(zone, t), getMonth(zone, t)>>
        dmy(t) == <<getDate(zone, t), getMonth(zone, t), getFullYear(zone, t)>>
    IN  CASE bucketWidth = "1d" -> <<dmy(binStartDate)>>
          [] bucketWidth = "3d" ->
                <<dm(binStartDate),
                  dmy(setDate(zone, binStartDate, getDate(zone, binStartDate) + 3))>>
          [] bucketWidth = "1w" ->
                <<dm(binStartDate),
                  dmy(setDate(zone, binStartDate, getDate(zone, binStartDate) + 7))>>
          [] bucketWidth = "1m" ->
                <<getMonth(zone, binStartDate), getFullYear(zone, binStartDate)>>
          [] bucketWidth = "3m" ->
                <<"quarter", getMonth(zone, binStartDate) \div 3, getFullYear(zone, binStartDate)>>
          [] bucketWidth = "6m" ->
                <<"half", getMonth(zone, binStartDate) \div 6, getFullYear(zone, binStartDate)>>
          [] bucketWidth = "1y" -> <<getFullYear(zone, binStartDate)>>

\* useMemo(() => {...}, [rides, bucketWidth]) of RidesOverTimeHistogram:
\* null without a ride that has a start time, else the labels and the data
CalendarChartMemo(zone, rideList, bucketWidth) ==
    LET startTimes == rideStartTimes(rideList)
    IN  IF Len(startTimes) = 0 THEN Null
        ELSE CHOOSE chart \in
                { Some([labels |-> [i \in 1..Len(starts) |->
                                     calendarBinLabel(zone, bucketWidth, starts[i])],
                        data |-> [i \in 1..Len(starts) |->
                                     binCountOf(zone, bucketWidth, startTimes,
                                                getBinKey(zone, bucketWidth, starts[i]))]]) :
                    starts \in {binStartDates(zone, bucketWidth, startTimes)} } :
                TRUE

\* the calendar histogram is not mounted
CalendarIdle ==
    /\ timeZone = "UTC"
    /\ calendarBucket = "1m"
    /\ calendarChart = Null

-----------------------------------------------------------------------------
(* Summary Statistics: the stats memo of StatsCards.  Timestamps are epoch   *)
(* milliseconds.                                                             *)

\* 1000 * 60 * 60 * 24
MsPerDay == 86400000

\* a JavaScript number that is NaN or a non-negative decimal num / den, den a
\* power of ten and as small as the value allows (binary rounding of the
\* doubles is not modelled)
NaN == [nan |-> TRUE, num |-> 0, den |-> 1]
RECURSIVE Decimal(_, _)
Decimal(num, den) ==
    IF den > 1 /\ num % 10 = 0 THEN Decimal(num \div 10, den \div 10)
    ELSE [nan |-> FALSE, num |-> num, den |-> den]
Zero == Decimal(0, 1)

\* a + b
NumAdd(a, b) ==
    IF a.nan \/ b.nan THEN NaN
    ELSE LET den == IF a.den > b.den THEN a.den ELSE b.den
         IN  Decimal(a.num * (den \div a.den) + b.num * (den \div b.den), den)
\* a > 0, false for NaN
NumPositive(a) == ~a.nan /\ a.num > 0

\* the characters of the class [\d.]
PriceChars == Digit \cup {"."}

\* the length of the longest prefix of s made of characters of the set
RECURSIVE PrefixLen(_, _)
PrefixLen(s, chars) ==
    IF s # <<>> /\ Head(s) \in chars THEN 1 + PrefixLen(Tail(s), chars) ELSE 0

\* r.price.match(/£?([\d.]+)/): group 1 of the leftmost match, which is the
\* first maximal run of digits and dots, as Some(run); Null without a match
RECURSIVE priceMatch(_)
priceMatch(price) ==
    IF price = <<>> THEN Null
    ELSE IF Head(price) \in PriceChars
         THEN Some(SubSeq(price, 1, PrefixLen(price, PriceChars)))
         ELSE priceMatch(Tail(price))

DigitValue(c) == CHOOSE v \in 0..9 : <<"0", "1", "2", "3", "4", "5", "6", "7", "8", "9">>[v + 1] = c

\* the number written by a sequence of digits
RECURSIVE DigitsValue(_)
DigitsValue(digits) ==
    IF digits = <<>> THEN 0
    ELSE DigitsValue(SubSeq(digits, 1, Len(digits) - 1)) * 10
         + DigitValue(digits[Len(digits)])

RECURSIVE PowerOfTen(_)
PowerOfTen(n) == IF n = 0 THEN 1 ELSE 10 * PowerOfTen(n - 1)

\* parseFloat of a run of digits and dots: the longest prefix that is a
\* decimal literal (digits, then optionally a dot and digits), NaN if that
\* prefix holds no digit
parseFloat(run) ==
    LET intLen == PrefixLen(run, Digit)
        rest == SubSeq(run, intLen + 1, Len(run))
        fracLen == IF rest # <<>> /\ Head(rest) = "."
                   THEN PrefixLen(Tail(rest), Digit) ELSE 0
        digits == SubSeq(run, 1, intLen) \o SubSeq(rest, 2, fracLen + 1)
    IN  IF intLen + fracLen = 0 THEN NaN
        ELSE Decimal(DigitsValue(digits), PowerOfTen(fracLen))

\* a plausible slip: priceValue >= 0 keeps the rides that cost nothing
HasPaidPrice_ZeroIncluded(r) ==
    /\ r.price # Null
    /\ r.price[1] # <<>>
    /\ priceMatch(r.price[1]) # Null
    /\ ~parseFloat(priceMatch(r.price[1])[1]).nan

\* the filter callback of ridesWithPrice
HasPaidPrice(r) ==
    /\ r.price # Null
    /\ r.price[1] # <<>>
    /\ priceMatch(r.price[1]) # Null
    /\ NumPositive(parseFloat(priceMatch(r.price[1])[1]))

ridesWithPrice(rideList) == SelectSeq(rideList, HasPaidPrice)

\* ridesWithPrice.reduce((sum, r) => ..., 0)
RECURSIVE totalSpentAmount(_)
totalSpentAmount(withPrice) ==
    IF withPrice = <<>> THEN Zero
    ELSE LET r == withPrice[Len(withPrice)]
             sum == totalSpentAmount(SubSeq(withPrice, 1, Len(withPrice) - 1))
         IN  IF r.price = Null \/ r.price[1] = <<>> THEN sum
             ELSE IF priceMatch(r.price[1]) = Null THEN sum
             ELSE NumAdd(sum, parseFloat(priceMatch(r.price[1])[1]))

\* durationsMs: (r.endTimeMs || 0) - (r.startTimeMs || 0) of ridesWithDuration
durationsMs(withDuration) ==
    [i \in 1..Len(withDuration) |->
        withDuration[i].endTimeMs[1] - withDuration[i].startTimeMs[1]]

RECURSIVE SumSeq(_)
SumSeq(xs) == IF xs = <<>> THEN 0 ELSE Head(xs) + SumSeq(Tail(xs))

\* Math.round(durationsMs.reduce(...) / durationsMs.length / 60000) or null
avgDurationMinutes(durations) ==
    IF Len(durations) > 0
    THEN Some(MathRound(SumSeq(durations), Len(durations) * MsPerMinute))
    ELSE Null
minDurationMinutes(durations) ==
    IF Len(durations) > 0 THEN Some(MathRound(MathMin(durations), MsPerMinute)) ELSE Null
maxDurationMinutes(durations) ==
    IF Len(durations) > 0 THEN Some(MathRound(MathMax(durations), MsPerMinute)) ELSE Null

\* ridesWithDuration.reduce((sum, ride) => sum + Math.round(... / 60000), 0)
RECURSIVE totalTimeCyclingMinutes(_)
totalTimeCyclingMinutes(withDuration) ==
    IF withDuration = <<>> THEN 0
    ELSE LET ride == Head(withDuration)
             rest == totalTimeCyclingMinutes(Tail(withDuration))
         IN  IF ride.startTimeMs # Null /\ ride.endTimeMs # Null
             THEN MathRound(ride.endTimeMs[1] - ride.startTimeMs[1], MsPerMinute) + rest
             ELSE rest

\* date.toISOString().split("T")[0]: the UTC date, kept as <<year, month, day>>
isoDateKey(t) == CivilFromDays(t \div MsPerDay)

\* new Date("YYYY-MM-DD"): midnight UTC of that date
DateOfKey(dateKey) == DaysFromCivil(dateKey[1], dateKey[2], dateKey[3]) * MsPerDay

\* ridesByDate after the forEach over rides
RECURSIVE ridesByDate(_)
ridesByDate(rideList) ==
    IF rideList = <<>> THEN <<>>
    ELSE LET ride == rideList[Len(rideList)]
             map == ridesByDate(SubSeq(rideList, 1, Len(rideList) - 1))
         IN  IF ride.startTimeMs # Null
             THEN LET dateKey == isoDateKey(ride.startTimeMs[1])
                      old == IF MapIndex(map, dateKey) # 0
                             THEN map[MapIndex(map, dateKey)].value ELSE 0
                  IN  MapSet(map, dateKey, old + 1)
             ELSE map

\* ridesByDate.forEach: [mostRidesInDay, mostRidesInDayDate] after the entries
\* up to n; a later date replaces the best one only with a greater count
RECURSIVE mostRidesLoop(_, _)
mostRidesLoop(byDate, n) ==
    IF n = 0 THEN [mostRidesInDay |-> 0, mostRidesInDayDate |-> Null]
    ELSE LET best == mostRidesLoop(byDate, n - 1)
         IN  IF byDate[n].value > best.mostRidesInDay
             THEN [mostRidesInDay |-> byDate[n].value,
                   mostRidesInDayDate |-> Some(DateOfKey(byDate[n].key))]
             ELSE best

\* Array.from(ridesByDate.keys()).map((d) => new Date(d)).sort(by getTime)
rideDates(byDate) ==
    SortSeq([i \in 1..Len(byDate) |-> DateOfKey(byDate[i].key)],
            LAMBDA a, b : a < b)

\* the for loop over rideDates: the locals after iteration i
RECURSIVE streakLoop(_, _)
streakLoop(dates, i) ==
    IF i = 0 THEN [currentStreak |-> 1, longestStreak |-> 1, longestBreakDays |-> Null]
    ELSE LET before == streakLoop(dates, i - 1)
             daysDiff == MathFloor(dates[i + 1] - dates[i], MsPerDay)
             currentStreak == IF daysDiff = 1 THEN before.currentStreak + 1 ELSE 1
             longest == IF daysDiff = 1 /\ currentStreak > before.longestStreak
                        THEN currentStreak ELSE before.longestStreak
             breakDays == daysDiff - 1
         IN  [currentStreak |-> currentStreak,
              longestStreak |-> longest,
              longestBreakDays |->
                  IF breakDays > 0 /\ (before.longestBreakDays = Null
                                       \/ breakDays > before.longestBreakDays[1])
                  THEN Some(breakDays) ELSE before.longestBreakDays]

\* longestStreak and longestBreakDays: the loop runs only with two dates or more
streakStats(dates) ==
    IF Len(dates) > 1 THEN streakLoop(dates, Len(dates) - 1)
    ELSE [currentStreak |-> 0, longestStreak |-> 0, longestBreakDays |-> Null]

\* useMemo((): Stats => {...}, [rides, stations]), the fields on durations,
\* prices and ride dates
StatsMemo(rideList) ==
    LET withDuration == ridesWithDuration(rideList)
        durations == durationsMs(withDuration)
        withPrice == ridesWithPrice(rideList)
        byDate == ridesByDate(rideList)
        most == mostRidesLoop(byDate, Len(byDate))
        streak == streakStats(rideDates(byDate))
    IN  [totalRides |-> Len(rideList),
         avgDurationMinutes |-> avgDurationMinutes(durations),
         minDurationMinutes |-> minDurationMinutes(durations),
         maxDurationMinutes |-> maxDurationMinutes(durations),
         totalSpentAmount |-> totalSpentAmount(withPrice),
         totalSpentRides |-> Len(withPrice),
         mostRidesInDay |-> most.mostRidesInDay,
         mostRidesInDayDate |-> most.mostRidesInDayDate,
         longestStreak |-> streak.longestStreak,
         longestBreakDays |-> streak.longestBreakDays,
         totalTimeCyclingMinutes |-> totalTimeCyclingMinutes(withDuration)]

\* StatsCards is not mounted
StatsIdle == stats = Null

(***************************************************************************)
(* The scraper scripts: Script A (fetch-ride-summaries.js) pages through   *)
(* the ride history into window.__rideSummaries, Script B                  *)
(* (fetch-ride-details.js) fetches the details of every ride into          *)
(* window.__rideDetails.  Both run in the console of the TfL page, one at  *)
(* a time, and share window.__stopFetching, gql and withRetries.           *)
(***************************************************************************)
Scripts == {"A", "B"}

\* The knobs of the scripts (MAX_RETRIES is 3 in both).
START_OFFSET == 0
InitialLimit == 10
MAX_RETRIES == 3
RETRY_BASE_MS == [A |-> 500, B |-> 600]
JITTER_MS == [A |-> 60, B |-> 50]

\* jitter() is Math.floor(Math.random() * JITTER_MS): the two extremes.
jitter(script) == {0, JITTER_MS[script] - 1}

\* What one fetch can come back with: status 0 stands for a rejected fetch
\* (no response at all); the body is an HTML page ("html"), JSON with an
\* errors array ("errors"), JSON data without the member ("noMember"), JSON
\* data with the member but without the payload asked for ("noPayload"), or
\* the payload.
NetworkError == [status |-> 0, body |-> "none"]
Responses ==
    { NetworkError,
      [status |-> 200, body |-> "payload"],
      [status |-> 200, body |-> "noPayload"],
      [status |-> 200, body |-> "noMember"],
      [status |-> 200, body |-> "errors"],
      [status |-> 401, body |-> "html"],
      [status |-> 401, body |-> "errors"],
      [status |-> 500, body |-> "errors"] }

ResOk(response) == response.status >= 200 /\ response.status <= 299

\* isLoggedOut(data, response): status 401 or 403, or no member data.
isLoggedOut(response) ==
    \/ response.status = 401
    \/ response.status = 403
    \/ response.body = "noMember"

Thrown(text, status) == [ok |-> FALSE, text |-> text, status |-> status]
Returned == [ok |-> TRUE, text |-> "", status |-> 200]

\* gql: the checks in the order of the code.  The HTTP status that the
\* message interpolates is kept beside the text.
gql(response) ==
    IF response = NetworkError THEN Thrown("Failed to fetch", 0)
    ELSE IF response.body = "html"
    THEN Thrown("Non-JSON response (HTTP ). Logged out?", response.status)
    ELSE IF ~ResOk(response) THEN Thrown("HTTP ", response.status)
    ELSE IF response.body = "errors" THEN Thrown("GraphQL: ", response.status)
    ELSE IF isLoggedOut(response)
    THEN Thrown("Session expired - please login and restart", response.status)
    ELSE Returned

\* e.message.includes("Session expired") || e.message.includes("Logged out"),
\* over the messages gql throws.
IsLogoutError(e) ==
    e.text \in { "Session expired - please login and restart",
                 "Non-JSON response (HTTP ). Logged out?" }

\* One turn of the loop of withRetries after fn() has thrown e on the given
\* attempt: rethrow, give up, or sleep the backoff and try again.
withRetries(script, e, n, jit) ==
    IF IsLogoutError(e) THEN [do |-> "throw", backoff |-> 0]
    ELSE IF n >= MAX_RETRIES THEN [do |-> "throw", backoff |-> 0]
    ELSE [do |-> "retry", backoff |-> RETRY_BASE_MS[script] * n + jit]

\* The server pages the ride history ServerLimit rides at a time.
ServerLimit == 2
Min(a, b) == IF a < b THEN a ELSE b
rideHistory(history, start) ==
    [ limit |-> ServerLimit,
      hasMore |-> start + ServerLimit < Len(history),
      rideHistoryList |->
          SubSeq(history, start + 1, Min(start + ServerLimit, Len(history))) ]

\* Script A's local variables, Script B's, and none.
NoLocals ==
    [start |-> 0, limit |-> 0, hasMore |-> FALSE, all |-> <<>>,
     i |-> 0, rideIds |-> <<>>]
SummaryLocals ==
    [NoLocals EXCEPT !.start = START_OFFSET, !.limit = InitialLimit,
                     !.hasMore = TRUE, !.all = <<>>]

\* What a run has announced on the console: the stop message of the loop,
\* the COMPLETE banner after the loop, and Script B's export of the rides
\* that have details (copy() or the printed JSON).
StoppedByUser == "Script stopped by user"
Complete == "COMPLETE"
Exported == "Paste this data into the website for visualization"

\* the statements after the while loop of Script A
SummariesDone == {Complete}

\* the statements after the for loop of Script B
DetailsDone(rideIds, out) ==
    LET allRides == {k \in 1..Len(rideIds) :
                        rideIds[k] \in DOMAIN out /\ out[rideIds[k]] # Null}
    IN  {Complete} \cup (IF allRides # {} THEN {Exported} ELSE {})

NoRun == [script |-> "none", outcome |-> "none", console |-> {}]
Ended(script, outcome, console) ==
    [script |-> script, outcome |-> outcome, console |-> console]

\* [...new Set(summaries.map((r) => r.rideId).filter(Boolean))]: the ids in
\* the order of their first occurrence, the empty id dropped.
RECURSIVE uniqueRideIds(_, _)
uniqueRideIds(summaries, seen) ==
    IF summaries = <<>> THEN seen
    ELSE LET id == Head(summaries)
         IN  uniqueRideIds(Tail(summaries),
                 IF id = "" \/ (\E k \in 1..Len(seen) : seen[k] = id)
                 THEN seen ELSE Append(seen, id))

\* out[rideId] !== null && out[rideId] !== undefined
IsCached_NullCounts(out, rideId) == rideId \in DOMAIN out

IsCached(out, rideId) == rideId \in DOMAIN out /\ out[rideId] # Null

transformRideDetail(rideId) == [rideId |-> rideId]

\* The for loop of Script B from index i up to its next await: cached ids
\* are passed over without one.
RECURSIVE nextUncached(_, _, _)
nextUncached(rideIds, out, i) ==
    IF i > Len(rideIds) THEN i
    ELSE IF IsCached(out, rideIds[i]) THEN nextUncached(rideIds, out, i + 1)
    ELSE i

ScraperIdle ==
    /\ serverRides = <<>>
    /\ rideSummaries = Null
    /\ rideDetails = <<>>
    /\ stopFetching = FALSE
    /\ running = "none"
    /\ pc = "idle"
    /\ loc = NoLocals
    /\ attempt = 0
    /\ lastFailure = Null
    /\ backoffs = <<>>
    /\ requests = <<>>
    /\ runStart = [script |-> "none", summaries |-> Null, details |-> <<>>,
                   after |-> NoRun]
    /\ lastRun = NoRun
    /\ runCount = 0
    /\ faults = 0

(***************************************************************************)
(* The App and Step3PasteData: the ride list is kept in localStorage       *)
(* under STORAGE_KEY as JSON text.  A JSON text is blank, malformed, or    *)
(* holds a document; a document is a tree of the nodes below, an object    *)
(* being the list of its members as written (a key may occur twice).       *)
(***************************************************************************)
JNull == [t |-> "null"]
JUndefined == [t |-> "undefined"]
JNum(n) == [t |-> "number", n |-> n]
JStr(s) == [t |-> "string", s |-> s]
JArr(items) == [t |-> "array", items |-> items]
JObj(members) == [t |-> "object", members |-> members]
Member(key, value) == [key |-> key, value |-> value]

BlankText == [syntax |-> "blank", doc |-> JNull]
MalformedText == [syntax |-> "malformed", doc |-> JNull]
JsonText(doc) == [syntax |-> "json", doc |-> doc]

\* JSON.parse throws a SyntaxError on a text that is not JSON.
ParseThrows(text) == text.syntax # "json"

\* The members of a parsed object: one per key, at the place of the key's
\* first occurrence, with the value of its last occurrence.
ObjectEntries(members) ==
    LET IsFirst(k) == \A j \in 1..(k - 1) : members[j].key # members[k].key
        firsts == SelectSeq([k \in 1..Len(members) |-> k], IsFirst)
        LastOf(key) == CHOOSE k \in 1..Len(members) :
                          /\ members[k].key = key
                          /\ \A j \in (k + 1)..Len(members) : members[j].key # key
    IN  [n \in 1..Len(firsts) |->
            Member(members[firsts[n]].key,
                   members[LastOf(members[firsts[n]].key)].value)]

\* JSON.parse of a text that holds a document: the value, objects with one
\* entry per key.
RECURSIVE JSONparse(_)
JSONparse(doc) ==
    IF doc.t = "array"
    THEN JArr([k \in 1..Len(doc.items) |-> JSONparse(doc.items[k])])
    ELSE IF doc.t = "object"
    THEN LET entries == ObjectEntries(doc.members)
         IN  JObj([k \in 1..Len(entries) |->
                      Member(entries[k].key, JSONparse(entries[k].value))])
    ELSE doc

\* value[key] of a parsed value; undefined when it has no such property
Prop(value, key) ==
    IF value.t = "object" /\ \E k \in 1..Len(value.members) : value.members[k].key = key
    THEN value.members[CHOOSE k \in 1..Len(value.members) :
                           value.members[k].key = key].value
    ELSE JUndefined

\* whether a value is truthy
Truthy(value) ==
    CASE value.t = "null" -> FALSE
      [] value.t = "undefined" -> FALSE
      [] value.t = "number" -> value.n # 0
      [] value.t = "string" -> value.s # ""
      [] OTHER -> TRUE

\* z.string().nullable(), z.number().nullable() and
\* z.string().nullable().optional(): whether the value passes, and the data
Undefined == <<"undefined", "undefined">>
NullableStringOk(value) == value.t \in {"string", "null"}
NullableNumberOk(value) == value.t \in {"number", "null"}
OptionalStringOk(value) == value.t \in {"string", "null", "undefined"}
StringData(value) ==
    CASE value.t = "string" -> Some(value.s)
      [] value.t = "undefined" -> Undefined
      [] OTHER -> Null
NumberData(value) == IF value.t = "number" THEN Some(value.n) ELSE Null

\* PriceBreakdownItemSchema
PriceBreakdownItemOk(value) ==
    /\ value.t = "object"
    /\ NullableStringOk(Prop(value, "title"))
    /\ NullableStringOk(Prop(value, "amount"))
PriceBreakdownItemData(value) ==
    [title |-> StringData(Prop(value, "title")),
     amount |-> StringData(Prop(value, "amount"))]

\* PaymentMethodSchema
PaymentMethodOk(value) ==
    /\ value.t = "object"
    /\ OptionalStringOk(Prop(value, "cardType"))
    /\ OptionalStringOk(Prop(value, "lastFour"))
    /\ OptionalStringOk(Prop(value, "clientPaymentMethod"))
PaymentMethodData(value) ==
    [cardType |-> StringData(Prop(value, "cardType")),
     lastFour |-> StringData(Prop(value, "lastFour")),
     clientPaymentMethod |-> StringData(Prop(value, "clientPaymentMethod"))]

\* RideSchema: the data keeps the eight keys of the schema and no other
RideOk(value) ==
    /\ value.t = "object"
    /\ NullableStringOk(Prop(value, "rideId"))
    /\ NullableNumberOk(Prop(value, "startTimeMs"))
    /\ NullableNumberOk(Prop(value, "endTimeMs"))
    /\ NullableStringOk(Prop(value, "startAddress"))
    /\ NullableStringOk(Prop(value, "endAddress"))
    /\ NullableStringOk(Prop(value, "price"))
    /\ LET breakdown == Prop(value, "priceBreakdown")
       IN  \/ breakdown.t = "null"
           \/ /\ breakdown.t = "array"
              /\ \A k \in 1..Len(breakdown.items) :
                    PriceBreakdownItemOk(breakdown.items[k])
    /\ LET method == Prop(value, "paymentMethod")
       IN  method.t = "null" \/ PaymentMethodOk(method)

RideData(value) ==
    [rideId |-> StringData(Prop(value, "rideId")),
     startTimeMs |-> NumberData(Prop(value, "startTimeMs")),
     endTimeMs |-> NumberData(Prop(value, "endTimeMs")),
     startAddress |-> StringData(Prop(value, "startAddress")),
     endAddress |-> StringData(Prop(value, "endAddress")),
     price |-> StringData(Prop(value, "price")),
     priceBreakdown |->
        LET breakdown == Prop(value, "priceBreakdown")
        IN  IF breakdown.t # "array" THEN Null
            ELSE Some([k \in 1..Len(breakdown.items) |->
                          PriceBreakdownItemData(breakdown.items[k])]),
     paymentMethod |->
        LET method == Prop(value, "paymentMethod")
        IN  IF method.t # "object" THEN Null ELSE Some(PaymentMethodData(method))]

\* RidesArraySchema.safeParse(value): success, and data on success
safeParse(value) ==
    IF value.t = "array" /\ \A k \in 1..Len(value.items) : RideOk(value.items[k])
    THEN [success |-> TRUE,
          data |-> [k \in 1..Len(value.items) |-> RideData(value.items[k])]]
    ELSE [success |-> FALSE, data |-> <<>>]

\* JSON.stringify of the data: a null stays null, a key whose value is
\* undefined is left out.
StringDoc(field) == IF field = Null THEN JNull ELSE JStr(field[1])
NumberDoc(field) == IF field = Null THEN JNull ELSE JNum(field[1])
DefinedMembers(members) ==
    LET IsDefined(member) == member.value # JUndefined
    IN  SelectSeq(members, IsDefined)
OptionalMember(key, field) ==
    Member(key, IF field = Undefined THEN JUndefined ELSE StringDoc(field))
PriceBreakdownItemDoc(item) ==
    JObj(<<Member("title", StringDoc(item.title)),
           Member("amount", StringDoc(item.amount))>>)
PaymentMethodDoc(method) ==
    JObj(DefinedMembers(
        <<OptionalMember("cardType", method.cardType),
          OptionalMember("lastFour", method.lastFour),
          OptionalMember("clientPaymentMethod", method.clientPaymentMethod)>>))
RideDoc(ride) ==
    JObj(<<Member("rideId", StringDoc(ride.rideId)),
           Member("startTimeMs", NumberDoc(ride.startTimeMs)),
           Member("endTimeMs", NumberDoc(ride.endTimeMs)),
           Member("startAddress", StringDoc(ride.startAddress)),
           Member("endAddress", StringDoc(ride.endAddress)),
           Member("price", StringDoc(ride.price)),
           Member("priceBreakdown",
                  IF ride.priceBreakdown = Null THEN JNull
                  ELSE JArr([k \in 1..Len(ride.priceBreakdown[1]) |->
                                PriceBreakdownItemDoc(ride.priceBreakdown[1][k])])),
           Member("paymentMethod",
                  IF ride.paymentMethod = Null THEN JNull
                  ELSE PaymentMethodDoc(ride.paymentMethod[1]))>>)
RidesDoc(list) == JArr([k \in 1..Len(list) |-> RideDoc(list[k])])

\* Date.now()
DateNow == 1000

\* JSON.stringify(dataToStore) of saveToLocalStorage
StoredDataText(list) ==
    JsonText(JObj(<<Member("rides", RidesDoc(list)),
                    Member("savedAt", JNum(DateNow)),
                    Member("rideCount", JNum(Len(list)))>>))

\* The initialisers of currentStep and rides in App: the stored item is
\* parsed, an array is taken as the rides and of anything else its rides
\* property, and the rides are validated.
StoredRides(stored) ==
    IF stored = Null \/ stored[1].syntax = "blank" \/ ParseThrows(stored[1])
    THEN [success |-> FALSE, data |-> <<>>]
    ELSE LET parsed == JSONparse(stored[1].doc)
             list == IF parsed.t = "array" THEN parsed
                     ELSE IF parsed.t = "null" THEN JUndefined
                     ELSE Prop(parsed, "rides")
         IN  IF Truthy(list) THEN safeParse(list)
             ELSE [success |-> FALSE, data |-> <<>>]

InitialStep(stored) == IF StoredRides(stored).success THEN 4 ELSE 1
InitialRides(stored) ==
    IF StoredRides(stored).success THEN StoredRides(stored).data ELSE <<>>

\* The initialiser of storedDataInfo in Step3PasteData
InitialStoredDataInfo(stored) ==
    IF stored = Null \/ stored[1].syntax = "blank" \/ ParseThrows(stored[1])
    THEN Null
    ELSE LET parsed == JSONparse(stored[1].doc)
             list == Prop(parsed, "rides")
         IN  IF parsed.t = "array" /\ Len(parsed.items) > 0
             THEN Some([savedAt |-> JNum(DateNow),
                        rideCount |-> JNum(Len(parsed.items))])
             ELSE IF parsed.t = "object" /\ list.t = "array"
             THEN Some([savedAt |-> IF Truthy(Prop(parsed, "savedAt"))
                                    THEN Prop(parsed, "savedAt")
                                    ELSE JNum(DateNow),
                        rideCount |-> IF Truthy(Prop(parsed, "rideCount"))
                                      THEN Prop(parsed, "rideCount")
                                      ELSE JNum(Len(list.items))])
             ELSE Null

\* Step3PasteData as it mounts
Mounted(stored) ==
    Some([jsonInput |-> BlankText, error |-> Null, success |-> FALSE,
          rideCount |-> Null, storedDataInfo |-> InitialStoredDataInfo(stored)])

\* The App shows the given step, nothing is stored and nothing was pasted.
\* no table is mounted and no session is observed
UiIdle ==
    /\ sortField = [routes |-> "count", stations |-> "total"]
    /\ sortDirection = [routes |-> "desc", stations |-> "desc"]
    /\ selectedRoutes = {}
    /\ selectedStations = {}
    /\ initializedRef = [routes |-> FALSE, stations |-> FALSE]
    /\ autoSelections = [routes |-> 0, stations |-> 0]
    /\ sessions = <<>>

AppAt(step) ==
    /\ storage = Null
    /\ currentStep = step
    /\ paste = Null
    /\ parsedRides = Null

-----------------------------------------------------------------------------
(* Inputs of the resolver: a small station feed and addresses made of a   *)
(* few words, which cover each stage of the chain.                        *)

MaxWords == 3       \* words per generated address
MaxStations == 2    \* stations per directory

\* Station records as useStations builds them (text fields trimmed); the
\* coordinates are in thousandths of a degree.
StationHydePark ==
    [id |-> <<"1">>, name |-> <<"H", "y", "d", "e", " ", "P", "a", "r", "k">>,
     terminalName |-> <<"2", "0", "0", "1", "2", "3">>, lat |-> 51500, long |-> -100]
StationParkLane ==
    [id |-> <<"2">>, name |-> <<"P", "a", "r", "k", " ", "L", "a", "n", "e", ",", " ", "H", "y", "d", "e", " ", "P", "a", "r", "k">>,
     terminalName |-> <<"0", "0", "1", "2", "3", "4">>, lat |-> 51510, long |-> -100]
StationBank ==
    [id |-> <<"3">>, name |-> <<"B", "a", "n", "k", " ", "o", "f", " ", "E", "n", "g", "l", "a", "n", "d">>,
     terminalName |-> <<"3", "0", "0", "0", "4", "5">>, lat |-> 51514, long |-> -100]

FeedStations == {StationHydePark, StationParkLane, StationBank}

\* the directories: sequences of distinct feed stations
Directories(n) ==
    {d \in UNION {[1..k -> FeedStations] : k \in 0..n} :
        \A i, j \in 1..Len(d) : i # j => d[i] # d[j]}

Vocabulary ==
    {<<"H", "y", "d", "e">>, <<"p", "a", "r", "k">>, <<"l", "a", "n", "e", ",">>, <<"s", "o", "f", "a">>, <<"r", "o", "o", "f">>, <<"0", "0", "1", "2", "3", "4">>}

RECURSIVE JoinWords(_)
JoinWords(ws) ==
    IF Len(ws) = 0 THEN <<>>
    ELSE IF Len(ws) = 1 THEN ws[1]
    ELSE ws[1] \o <<" ">> \o JoinWords(Tail(ws))

\* null, "", all-blank and padded addresses, and every phrase of up to
\* MaxWords vocabulary words
Addresses ==
    {Null, Some(<<>>), Some(<<" ">>), Some(<<" ", "H", "y", "d", "e", " ", "p", "a", "r", "k", " ">>)}
    \cup {Some(JoinWords(ws)) : ws \in UNION {[1..k -> Vocabulary] : k \in 1..MaxWords}}

-----------------------------------------------------------------------------
(* The resolver on its own: one call of each copy on a drawn input *)

InitResolve ==
    /\ stations \in Directories(MaxStations)
    /\ address \in Addresses
    /\ found = Null
    /\ foundStats = Null
    /\ resolved = {}
    /\ rides = <<>>
    /\ routeStats = <<>>
    /\ stationStats = <<>>
    /\ journeyBucket = "1m"
    /\ journeyChart = Null
    /\ CalendarIdle
    /\ StatsIdle
    /\ ScraperIdle
    /\ AppAt(4)
    /\ UiIdle

\* RoutesTable / StationsTable call findStationByName(address, stations)
ResolveTable ==
    /\ "table" \notin resolved
    /\ found' = findStationByName(address, stations)
    /\ resolved' = resolved \cup {"table"}
    /\ UNCHANGED <<stations, rides, address, foundStats, tableVars, journeyVars, calendarVars, statsVars, scraperVars, appVars, uiVars>>

\* StatsCards calls its own findStationByName(address, stations)
ResolveStats ==
    /\ "stats" \notin resolved
    /\ foundStats' = findStationByNameStats(address, stations)
    /\ resolved' = resolved \cup {"stats"}
    /\ UNCHANGED <<stations, rides, address, found, tableVars, journeyVars, calendarVars, statsVars, scraperVars, appVars, uiVars>>

NextResolve == ResolveTable \/ ResolveStats

SpecResolve == InitResolve /\ [][NextResolve]_vars

-----------------------------------------------------------------------------
(* Claims about the resolver (SpecResolve) *)

HasAddress(addr) == addr # Null /\ addr[1] # <<>>

Normalized(addr) == trim(toLowerCase(addr[1]))

MinOf(S) == CHOOSE i \in S : \A j \in S : i <= j

\* directory positions whose lowercase name contains, or is contained in,
\* the normalized address
SubstringHits(addr, dir) ==
    {i \in 1..Len(dir) :
        \/ includes(Normalized(addr), toLowerCase(dir[i].name))
        \/ includes(toLowerCase(dir[i].name), Normalized(addr))}

\* directory positions whose terminalName is the six-digit run of the address
TerminalHits(addr, dir) ==
    {i \in 1..Len(dir) :
        /\ matchTerminal(Normalized(addr)) # Null
        /\ dir[i].terminalName = matchTerminal(Normalized(addr))[1]}

\* the number of address tokens (length > 2) that are a substring of, or
\* contain, one of the given station tokens
OverlapCount(addr, stationTokens) ==
    LET aw == AddressWords(Normalized(addr))
    IN  Cardinality({k \in 1..Len(aw) :
            \E t \in 1..Len(stationTokens) :
                includes(stationTokens[t], aw[k]) \/ includes(aw[k], stationTokens[t])})

\* directory positions with at least two matching word tokens
FuzzyHits(addr, dir) ==
    {i \in 1..Len(dir) : OverlapCount(addr, StationWords(dir[i])) >= 2}

StagedResult(addr, dir) ==
    IF SubstringHits(addr, dir) # {} THEN Some(dir[MinOf(SubstringHits(addr, dir))])
    ELSE IF TerminalHits(addr, dir) # {} THEN Some(dir[MinOf(TerminalHits(addr, dir))])
    ELSE IF FuzzyHits(addr, dir) # {} THEN Some(dir[MinOf(FuzzyHits(addr, dir))])
    ELSE Null

\* C4: the resolver returns the first substring match in directory order if
\* there is one, otherwise the station with the terminal code of the address,
\* otherwise the first station with two matching word tokens, otherwise null;
\* both copies of the resolver agree on this.
C4_StagesInOrder ==
    HasAddress(address) =>
        /\ "table" \in resolved => found = StagedResult(address, stations)
        /\ "stats" \in resolved => foundStats = StagedResult(address, stations)

\* a later station matched by substring wins over an earlier station that
\* matches by terminal code, and over one that matches by word overlap
C4_Witness ==
    /\ resolved = {"table", "stats"}
    /\ HasAddress(address)
    /\ Len(stations) = 2
    /\ 2 \in SubstringHits(address, stations)
    /\ 1 \notin SubstringHits(address, stations)
    /\ 1 \in TerminalHits(address, stations) \cup FuzzyHits(address, stations)
    /\ found = Some(stations[2])

\* station-name tokens as the claim has them: split like the address and
\* kept only when longer than two characters
LongStationWords(station) ==
    SelectSeq(StationWords(station), LAMBDA w : Len(w) > MinWordLength)

\* C6: in the word-overlap stage a station is accepted only when at least two
\* address tokens match station-name tokens of length > 2; shorter and empty
\* station-name tokens never produce a match.
C6_ShortTokensNeverMatch ==
    ( /\ "table" \in resolved
      /\ HasAddress(address)
      /\ SubstringHits(address, stations) = {}
      /\ TerminalHits(address, stations) = {}
      /\ found # Null )
    => OverlapCount(address, LongStationWords(found[1])) >= MinMatchingWords

-----------------------------------------------------------------------------
(* The two tables over a growing ride list *)

MaxRides == 2       \* rides in the list

\* a feed whose ids are plain numbers, and one whose ids hold a hyphen
\* (StationSchema: id is any string)
StationBankHyphen == [StationBank EXCEPT !.id = <<"1", "-", "1">>]

TableDirectories ==
    {<<StationHydePark, StationBank>>, <<StationHydePark, StationBankHyphen>>}

AddrHydePark == Some(<<"H", "y", "d", "e", " ", "P", "a", "r", "k">>)
AddrBank == Some(<<"b", "a", "n", "k">>)
AddrUnknown == Some(<<"r", "o", "o", "f">>)

Ride(startAddress, endAddress, startTimeMs, endTimeMs) ==
    [startAddress |-> startAddress, endAddress |-> endAddress,
     startTimeMs |-> startTimeMs, endTimeMs |-> endTimeMs]

\* Rides between the two stations (and a round trip), each as a 10-minute
\* ride, a 1.5-minute ride, a ride that ends before it starts and rides that
\* lack one or both timestamps; and 10-minute rides with an endpoint that
\* is null, empty or unknown.
TableRides ==
    {Ride(ab[1], ab[2], t[1], t[2]) :
        ab \in {<<AddrHydePark, AddrBank>>, <<AddrBank, AddrHydePark>>,
                <<AddrHydePark, AddrHydePark>>},
        t \in {<<Some(0), Some(600000)>>, <<Some(0), Some(90000)>>,
               <<Some(600000), Some(0)>>, <<Some(0), Null>>, <<Null, Null>>}}
    \cup {Ride(ab[1], ab[2], Some(0), Some(600000)) :
        ab \in {<<Null, AddrBank>>, <<AddrHydePark, Null>>,
                <<Some(<<>>), AddrBank>>, <<AddrHydePark, Some(<<>>)>>,
                <<AddrUnknown, AddrBank>>, <<AddrHydePark, AddrUnknown>>,
                <<Null, Some(<<>>)>>}}

Init ==
    /\ stations = <<>>
    /\ rides = <<>>
    /\ routeStats = RouteStatsMemo(<<>>, <<>>)
    /\ stationStats = StationStatsMemo(<<>>, <<>>)
    /\ address = Null
    /\ found = Null
    /\ foundStats = Null
    /\ resolved = {}
    /\ journeyBucket = "1m"
    /\ journeyChart = Null
    /\ CalendarIdle
    /\ StatsIdle
    /\ ScraperIdle
    /\ AppAt(4)
    /\ UiIdle

\* useStations: the feed arrives and replaces the initial empty directory;
\* both memos are recomputed on the new stations
StationsLoaded ==
    /\ stations = <<>>
    /\ \E dir \in TableDirectories :
        /\ stations' = dir
        /\ routeStats' = RouteStatsMemo(rides, dir)
        /\ stationStats' = StationStatsMemo(rides, dir)
    /\ UNCHANGED <<rides, resolverVars, journeyVars, calendarVars, statsVars, scraperVars, appVars, uiVars>>

\* the rides prop changes to a list that is one ride longer; both memos are
\* recomputed from the whole list
RidesChanged ==
    /\ Len(rides) < MaxRides
    /\ \E ride \in TableRides :
        /\ rides' = Append(rides, ride)
        /\ routeStats' = RouteStatsMemo(rides', stations)
        /\ stationStats' = StationStatsMemo(rides', stations)
    /\ UNCHANGED <<stations, resolverVars, journeyVars, calendarVars, statsVars, scraperVars, appVars, uiVars>>

Next == StationsLoaded \/ RidesChanged

Spec == Init /\ [][Next]_vars

-----------------------------------------------------------------------------
(* Claims about the two tables (Spec) *)

\* the address resolves to a station of the current directory
Resolves(addr) == HasAddress(addr) /\ StagedResult(addr, stations) # Null

\* the station an address resolves to
StationOf(addr) == StagedResult(addr, stations)[1]

RideIndices == 1..Len(rides)

BothResolve(i) ==
    Resolves(rides[i].startAddress) /\ Resolves(rides[i].endAddress)

HasDuration(ride) == ride.startTimeMs # Null /\ ride.endTimeMs # Null

RECURSIVE SumField(_, _)
SumField(entries, field) ==
    IF entries = <<>> THEN 0
    ELSE Head(entries)[field] + SumField(Tail(entries), field)

\* C1: the counts of all routes add up to the number of rides with both
\* endpoints resolved; a ride with an unresolved endpoint adds to no route.
C1_RouteConservation ==
    SumField(routeStats, "count") = Cardinality({i \in RideIndices : BothResolve(i)})

C1_Witness ==
    /\ stations # <<>>
    /\ \E i, j \in RideIndices : BothResolve(i) /\ ~BothResolve(j)
    /\ Len(routeStats) = 1
    /\ routeStats[1].count = 1

\* C2: the pickups of all stations add up to the number of rides whose start
\* resolves, and the dropoffs to the number of rides whose end resolves.
C2_StationConservation ==
    /\ SumField(stationStats, "pickups")
         = Cardinality({i \in RideIndices : Resolves(rides[i].startAddress)})
    /\ SumField(stationStats, "dropoffs")
         = Cardinality({i \in RideIndices : Resolves(rides[i].endAddress)})

C2_Witness ==
    /\ stations # <<>>
    /\ \E i \in RideIndices :
        Resolves(rides[i].startAddress) /\ ~Resolves(rides[i].endAddress)
    /\ \E j \in RideIndices :
        ~Resolves(rides[j].startAddress) /\ Resolves(rides[j].endAddress)
    /\ SumField(stationStats, "pickups") = 1
    /\ SumField(stationStats, "dropoffs") = 1

\* C3: every station entry has total = pickups + dropoffs and
\* net = pickups - dropoffs, and the entries are the stations of the
\* directory, one each, also those without any ride.
C3_StationEntries ==
    /\ Len(stationStats) = Len(stations)
    /\ \A k \in 1..Len(stationStats) :
        /\ stationStats[k].station = stations[k]
        /\ stationStats[k].total = stationStats[k].pickups + stationStats[k].dropoffs
        /\ stationStats[k].net = stationStats[k].pickups - stationStats[k].dropoffs

\* a round trip next to a one-way ride, and a station nobody used
C3_Witness ==
    /\ Len(rides) = 1
    /\ \E k \in 1..Len(stationStats) :
        /\ stationStats[k].pickups = 1
        /\ stationStats[k].dropoffs = 1
        /\ stationStats[k].net = 0
    /\ \E k \in 1..Len(stationStats) : stationStats[k].total = 0

\* C5: a null or empty address resolves to null, whatever the directory, and
\* such an endpoint counts in no pickup, no dropoff and no route.
C5_NoAddressNoStation ==
    /\ \A i \in RideIndices : \A addr \in {rides[i].startAddress, rides[i].endAddress} :
        ~HasAddress(addr) =>
            /\ findStationByName(addr, stations) = Null
            /\ findStationByNameStats(addr, stations) = Null
    /\ SumField(stationStats, "pickups")
         <= Cardinality({i \in RideIndices : HasAddress(rides[i].startAddress)})
    /\ SumField(stationStats, "dropoffs")
         <= Cardinality({i \in RideIndices : HasAddress(rides[i].endAddress)})
    /\ SumField(routeStats, "count")
         <= Cardinality({i \in RideIndices :
                HasAddress(rides[i].startAddress) /\ HasAddress(rides[i].endAddress)})

C5_Witness ==
    /\ stations # <<>>
    /\ Len(rides) = 2
    /\ rides[1].startAddress = Null /\ Resolves(rides[1].endAddress)
    /\ rides[2].endAddress = Some(<<>>) /\ Resolves(rides[2].startAddress)
    /\ SumField(stationStats, "pickups") = 1
    /\ SumField(stationStats, "dropoffs") = 1
    /\ routeStats = <<>>

\* the ordered pair of station ids of a ride with both endpoints resolved
IdPair(i) == <<StationOf(rides[i].startAddress).id, StationOf(rides[i].endAddress).id>>

\* C7: the routes are the distinct ordered pairs (start id, end id) of the
\* rides with both endpoints resolved, one entry each, whatever the id
\* strings: an entry counts exactly the rides of its own pair.
C7_OneEntryPerIdPair ==
    LET pairs == {IdPair(i) : i \in {j \in RideIndices : BothResolve(j)}}
    IN  /\ Len(routeStats) = Cardinality(pairs)
        /\ \A k \in 1..Len(routeStats) :
            routeStats[k].count =
                Cardinality({i \in RideIndices :
                    /\ BothResolve(i)
                    /\ IdPair(i) = <<routeStats[k].startStation.id,
                                     routeStats[k].endStation.id>>})

\* the position in a RouteStats array of the entry stored under a key
EntryAt(entries, key) ==
    {k \in 1..Len(entries) :
        RouteKey(entries[k].startStation, entries[k].endStation) = key}

\* C8: when the list grows by a ride that lacks a timestamp and resolves to a
\* route, the route's entry gets count + 1 and keeps avg, min, max and
\* distance as they were; a route no ride with both timestamps has reached
\* has all three duration fields null.
C8_NoTimestampKeepsDurations ==
    [][ ( /\ Len(rides') = Len(rides) + 1
          /\ SubSeq(rides', 1, Len(rides)) = rides
          /\ stations' = stations
          /\ ~HasDuration(rides'[Len(rides')])
          /\ Resolves(rides'[Len(rides')].startAddress)
          /\ Resolves(rides'[Len(rides')].endAddress) )
        => LET ride == rides'[Len(rides')]
               key == RouteKey(StationOf(ride.startAddress), StationOf(ride.endAddress))
               before == EntryAt(routeStats, key)
               after == EntryAt(routeStats', key)
           IN  /\ Cardinality(after) = 1
               /\ \A k \in before :
                    /\ k \in after
                    /\ routeStats'[k] = [routeStats[k] EXCEPT !.count = @ + 1]
               /\ before = {} =>
                    \A k \in after :
                        /\ routeStats'[k].count = 1
                        /\ routeStats'[k].avgDurationMinutes = Null
                        /\ routeStats'[k].minDurationMinutes = Null
                        /\ routeStats'[k].maxDurationMinutes = Null
               /\ \A k \in after :
                    (\A i \in 1..Len(rides') :
                        ( /\ Resolves(rides'[i].startAddress)
                          /\ Resolves(rides'[i].endAddress)
                          /\ RouteKey(StationOf(rides'[i].startAddress),
                                      StationOf(rides'[i].endAddress)) = key )
                        => ~HasDuration(rides'[i]))
                    => /\ routeStats'[k].avgDurationMinutes = Null
                       /\ routeStats'[k].minDurationMinutes = Null
                       /\ routeStats'[k].maxDurationMinutes = Null
      ]_vars

\* a 10-minute ride and then a ride without end time on the same route
C8_Witness ==
    /\ Len(rides) = 2
    /\ BothResolve(1) /\ BothResolve(2)
    /\ HasDuration(rides[1]) /\ ~HasDuration(rides[2])
    /\ Len(routeStats) = 1
    /\ routeStats[1].count = 2
    /\ routeStats[1].avgDurationMinutes = Some(10)
    /\ routeStats[1].minDurationMinutes = Some(10)
    /\ routeStats[1].maxDurationMinutes = Some(10)

-----------------------------------------------------------------------------
(* The journey-time histogram over a growing ride list *)

MaxJourneyRides == 3    \* rides in the list

\* rides of 65 s, 65.999 s, 125 s, 14 s and 6 minutes, a ride that ends 10
\* minutes before it starts, and rides that lack a timestamp
JourneyRides ==
    {Ride(Null, Null, t[1], t[2]) :
        t \in {<<Some(0), Some(65000)>>, <<Some(1000), Some(66999)>>,
               <<Some(0), Some(125000)>>, <<Some(0), Some(14000)>>,
               <<Some(0), Some(360000)>>, <<Some(600000), Some(0)>>,
               <<Null, Some(5000)>>, <<Some(0), Null>>}}

InitJourney ==
    /\ rides = <<>>
    /\ journeyBucket = "1m"
    /\ journeyChart = JourneyChartMemo(<<>>, "1m")
    /\ stations = <<>>
    /\ routeStats = <<>>
    /\ stationStats = <<>>
    /\ address = Null
    /\ found = Null
    /\ foundStats = Null
    /\ resolved = {}
    /\ CalendarIdle
    /\ StatsIdle
    /\ ScraperIdle
    /\ AppAt(4)
    /\ UiIdle

\* the rides prop changes to a list that is one ride longer
JourneyRidesChanged ==
    /\ Len(rides) < MaxJourneyRides
    /\ \E ride \in JourneyRides :
        /\ rides' = Append(rides, ride)
        /\ journeyChart' = JourneyChartMemo(rides', journeyBucket)
    /\ UNCHANGED <<stations, journeyBucket, resolverVars, tableVars, calendarVars, statsVars, scraperVars, appVars, uiVars>>

\* the bucket-width select: setBucketWidth(e.target.value)
JourneySetBucketWidth ==
    /\ \E w \in JourneyBucketWidths :
        /\ w # journeyBucket
        /\ journeyBucket' = w
        /\ journeyChart' = JourneyChartMemo(rides, w)
    /\ UNCHANGED <<stations, rides, resolverVars, tableVars, calendarVars, statsVars, scraperVars, appVars, uiVars>>

NextJourney == JourneyRidesChanged \/ JourneySetBucketWidth

SpecJourney == InitJourney /\ [][NextJourney]_vars

-----------------------------------------------------------------------------
(* Claims about the journey-time histogram (SpecJourney) *)

\* the durations in whole seconds of the rides with both timestamps
QualifyingSeconds ==
    LET q == {i \in RideIndices : HasDuration(rides[i])}
    IN  [i \in q |-> (rides[i].endTimeMs[1] - rides[i].startTimeMs[1]) \div 1000]

\* C9: with at least one ride that has both timestamps, bin 1 starts at the
\* minimum duration in seconds, bin n starts (n - 1) widths later, every such
\* ride is counted in the one bin whose range holds its duration, no bin up
\* to the maximum is missing, and the counts add up to the number of such
\* rides; the labels of the 15 s and 30 s widths print these bin starts.
C9_JourneyBinsComplete ==
    LET secs == QualifyingSeconds
        q == DOMAIN secs
        width == bucketWidthSeconds[journeyBucket]
    IN  IF q = {} THEN journeyChart = Null
        ELSE LET lo == CHOOSE x \in {secs[i] : i \in q} : \A i \in q : x <= secs[i]
                 hi == CHOOSE x \in {secs[i] : i \in q} : \A i \in q : x >= secs[i]
                 data == journeyChart[1].data
                 labels == journeyChart[1].labels
             IN  /\ journeyChart # Null
                 /\ Len(labels) = Len(data)
                 /\ \A n \in 1..Len(data) :
                      data[n] = Cardinality({i \in q :
                                    /\ lo + (n - 1) * width <= secs[i]
                                    /\ secs[i] < lo + n * width})
                 /\ lo + Len(data) * width > hi
                 /\ SumField([n \in 1..Len(data) |-> [count |-> data[n]]], "count")
                      = Cardinality(q)
                 /\ journeyBucket \in {"15s", "30s"} =>
                      \A n \in 1..Len(labels) :
                          /\ labels[n].from = lo + (n - 1) * width
                          /\ labels[n].to = lo + n * width

\* durations 65 s and 125 s at width 15s: five bins from 65 s, the first and
\* the last filled, three empty ones between; a ride without duration is left out
C9_Witness ==
    /\ journeyBucket = "15s"
    /\ journeyChart # Null
    /\ Len(rides) = 3
    /\ \E i \in RideIndices : ~HasDuration(rides[i])
    /\ journeyChart[1].data = <<1, 0, 0, 0, 1>>
    /\ journeyChart[1].labels[1].from = 65

-----------------------------------------------------------------------------
(* The rides-over-time histogram over a growing ride list *)

MaxCalendarRides == 2   \* rides in the list
MaxSpanDays == 45       \* days between the starts of two rides of a list

\* ride starts (UTC) around the new year and around the start of summer
\* time 2024, and a ride without start time
CalendarRides ==
    {Ride(Null, Null, t, Null) :
        t \in {Null,
               Some(UtcTime(2023, 12, 30, 10)),
               Some(UtcTime(2024, 1, 2, 8)),
               Some(UtcTime(2024, 2, 20, 18)),
               Some(UtcTime(2024, 3, 28, 12)),
               Some(UtcTime(2024, 3, 30, 23)),
               Some(UtcTime(2024, 4, 1, 23)),
               Some(UtcTime(2024, 4, 3, 12)),
               Some(UtcTime(2024, 4, 8, 0))}}

\* the ride starts at most MaxSpanDays away from every ride of the list
WithinSpan(rideList, ride) ==
    \A i \in 1..Len(rideList) :
        (ride.startTimeMs # Null /\ rideList[i].startTimeMs # Null) =>
            Abs(ride.startTimeMs[1] - rideList[i].startTimeMs[1])
                <= MaxSpanDays * HoursPerDay

InitCalendar ==
    /\ timeZone \in TimeZones
    /\ rides = <<>>
    /\ calendarBucket = "1m"
    /\ calendarChart = CalendarChartMemo(timeZone, <<>>, "1m")
    /\ StatsIdle
    /\ ScraperIdle
    /\ AppAt(4)
    /\ UiIdle
    /\ journeyBucket = "1m"
    /\ journeyChart = Null
    /\ stations = <<>>
    /\ routeStats = <<>>
    /\ stationStats = <<>>
    /\ address = Null
    /\ found = Null
    /\ foundStats = Null
    /\ resolved = {}

\* the rides prop changes to a list that is one ride longer
CalendarRidesChanged ==
    /\ Len(rides) < MaxCalendarRides
    /\ \E ride \in CalendarRides :
        /\ WithinSpan(rides, ride)
        /\ rides' = Append(rides, ride)
        /\ calendarChart' = CalendarChartMemo(timeZone, rides', calendarBucket)
    /\ UNCHANGED <<stations, timeZone, calendarBucket, resolverVars, tableVars, journeyVars, statsVars, scraperVars, appVars, uiVars>>

\* the bucket-width select: setBucketWidth(e.target.value)
CalendarSetBucketWidth ==
    /\ \E w \in CalendarBucketWidths :
        /\ w # calendarBucket
        /\ calendarBucket' = w
        /\ calendarChart' = CalendarChartMemo(timeZone, rides, w)
    /\ UNCHANGED <<stations, rides, timeZone, resolverVars, tableVars, journeyVars, statsVars, scraperVars, appVars, uiVars>>

NextCalendar == CalendarRidesChanged \/ CalendarSetBucketWidth

SpecCalendar == InitCalendar /\ [][NextCalendar]_vars

-----------------------------------------------------------------------------
(* Claims about the rides-over-time histogram *)

\* the start times the chart was computed from
ChartStartTimes == rideStartTimes(rides)
\* the bucket keys of the bins of the chart, in order
ChartBinKeys ==
    LET starts == binStartDates(timeZone, calendarBucket, ChartStartTimes)
    IN  [i \in 1..Len(starts) |-> getBinKey(timeZone, calendarBucket, starts[i])]
\* the bucket of the chosen width that time t falls in
BucketOf(t) == getBinKey(timeZone, calendarBucket, t)

\* C10: for every calendar bucket width the bins run from the bucket of the
\* earliest ride start to the bucket of the latest ride start, every bucket
\* in between (empty or not) is a bin exactly once, and the counts of the
\* bins sum to the number of rides that have a start time.
C10_CalendarBinsComplete ==
    calendarChart # Null =>
        LET keys == ChartBinKeys
            data == calendarChart[1].data
            earliest == MathMin(ChartStartTimes)
            latest == MathMax(ChartStartTimes)
        IN  /\ Len(keys) = Len(data)
            /\ Len(keys) >= 1
            /\ keys[1] = BucketOf(earliest)
            /\ keys[Len(keys)] = BucketOf(latest)
            /\ \A t \in earliest..latest :
                   Cardinality({i \in 1..Len(keys) : keys[i] = BucketOf(t)}) = 1
            /\ SumField([n \in 1..Len(data) |-> [count |-> data[n]]], "count")
                   = Len(ChartStartTimes)

-----------------------------------------------------------------------------
(* The summary statistics over a growing ride list *)

MaxStatsRides == 3   \* rides in the list

MsPerHour == MsPerDay \div HoursPerDay

\* epoch milliseconds of a UTC date, hour and minute
UtcMs(year, month, day, hour, minute) ==
    UtcTime(year, month, day, hour) * MsPerHour + minute * MsPerMinute

\* a ride of the schema with the fields the statistics read
StatsRide(startTimeMs, endTimeMs, price) ==
    [startAddress |-> Null, endAddress |-> Null,
     startTimeMs |-> startTimeMs, endTimeMs |-> endTimeMs, price |-> price]

Pound == "£"

\* rides in the first days of 1970: a 10-minute ride at noon, a ride late in
\* the evening (UTC) without end, a ride that ends before it starts, a
\* 90-second ride three days later, rides without start; and rides without
\* times that carry a price
StatsRides ==
    {StatsRide(t[1], t[2], Null) :
        t \in {<<Some(UtcMs(1970, 1, 1, 12, 0)), Some(UtcMs(1970, 1, 1, 12, 10))>>,
               <<Some(UtcMs(1970, 1, 1, 23, 0)), Null>>,
               <<Some(UtcMs(1970, 1, 2, 10, 0)), Some(UtcMs(1970, 1, 2, 9, 58))>>,
               <<Some(UtcMs(1970, 1, 5, 8, 0)),
                 Some(UtcMs(1970, 1, 5, 8, 0) + 90000)>>,
               <<Null, Some(UtcMs(1970, 1, 3, 9, 0))>>,
               <<Null, Null>>}}
    \cup
    {StatsRide(Null, Null, price) :
        price \in {Some(<<Pound, "1", ".", "5", "0">>),
                   Some(<<Pound, "0", ".", "0", "0">>),
                   Some(<<"2", ".", "2", "5">>),
                   Some(<<"F", "r", "e", "e">>),
                   Some(<<Pound, ".">>),
                   Some(<<>>)}}

InitStats ==
    /\ timeZone \in TimeZones
    /\ rides = <<>>
    /\ stats = Some(StatsMemo(<<>>))
    /\ ScraperIdle
    /\ AppAt(4)
    /\ UiIdle
    /\ journeyBucket = "1m"
    /\ journeyChart = JourneyChartMemo(<<>>, "1m")
    /\ calendarBucket = "1m"
    /\ calendarChart = Null
    /\ stations = <<>>
    /\ routeStats = <<>>
    /\ stationStats = <<>>
    /\ address = Null
    /\ found = Null
    /\ foundStats = Null
    /\ resolved = {}

\* the rides prop of Step4Preview changes to a list that is one ride longer:
\* StatsCards and JourneyTimeHistogram recompute their memos
StatsRidesChanged ==
    /\ Len(rides) < MaxStatsRides
    /\ \E ride \in StatsRides :
        /\ rides' = Append(rides, ride)
        /\ stats' = Some(StatsMemo(rides'))
        /\ journeyChart' = JourneyChartMemo(rides', journeyBucket)
    /\ UNCHANGED <<stations, journeyBucket, resolverVars, tableVars, calendarVars, scraperVars, appVars, uiVars>>

NextStats == StatsRidesChanged

SpecStats == InitStats /\ [][NextStats]_vars

-----------------------------------------------------------------------------
(* Claims about the summary statistics *)

StatsRideIndices == 1..Len(rides)

\* the parsed price of ride i: Null for a null price, a price without digits
\* or dots and a price that parses to NaN
ParsedPrice(i) ==
    IF rides[i].price = Null THEN Null
    ELSE IF priceMatch(rides[i].price[1]) = Null THEN Null
    ELSE IF parseFloat(priceMatch(rides[i].price[1])[1]).nan THEN Null
    ELSE Some(parseFloat(priceMatch(rides[i].price[1])[1]))

PaidRides == {i \in StatsRideIndices : ParsedPrice(i) # Null /\ ParsedPrice(i)[1].num > 0}

\* a decimal in units of one ten-thousandth
TenThousandths(a) == a.num * (10000 \div a.den)

RECURSIVE SumPaid(_)
SumPaid(indices) ==
    IF indices = {} THEN 0
    ELSE LET i == CHOOSE x \in indices : TRUE
         IN  TenThousandths(ParsedPrice(i)[1]) + SumPaid(indices \ {i})

\* C11: totalSpentRides counts exactly the rides whose price parses to a value
\* greater than zero and totalSpentAmount is the sum of those values; rides
\* with a null, unparseable or zero price add to neither, and the computation
\* yields a number for every price string.
C11_PaidRidesOnly ==
    /\ stats # Null
    /\ stats[1].totalSpentRides = Cardinality(PaidRides)
    /\ ~stats[1].totalSpentAmount.nan
    /\ TenThousandths(stats[1].totalSpentAmount) = SumPaid(PaidRides)

\* one paid ride between a ride that costs nothing and a ride whose price
\* does not parse
C11_Witness ==
    /\ stats # Null
    /\ Len(rides) = 3
    /\ stats[1].totalSpentRides = 1
    /\ stats[1].totalSpentAmount = Decimal(15, 10)
    /\ \E i \in StatsRideIndices : ParsedPrice(i) # Null /\ ParsedPrice(i)[1].num = 0
    /\ \E i \in StatsRideIndices : rides[i].price # Null /\ ParsedPrice(i) = Null

\* the rides that have a start time
StartedRides == {i \in StatsRideIndices : rides[i].startTimeMs # Null}

\* the distinct ride dates, as day numbers of the UTC dates the code keys by
RideDays == {rides[i].startTimeMs[1] \div MsPerDay : i \in StartedRides}

\* the longest run of consecutive days that are all ride days; 0 without rides
LongestRun ==
    LET runs == {k \in 0..Cardinality(RideDays) :
                    k = 0 \/ \E d \in RideDays : \A j \in 0..(k - 1) : d + j \in RideDays}
    IN  CHOOSE k \in runs : \A other \in runs : other <= k

\* C12: longestStreak is the longest run of consecutive calendar days that
\* each hold a ride, over the distinct ride dates; with exactly one distinct
\* ride date it is 1.
C12_LongestStreakIsLongestRun ==
    stats # Null => stats[1].longestStreak = LongestRun

\* the whole days strictly between neighbouring distinct ride dates
BreaksBetween ==
    {later - earlier - 1 :
        <<earlier, later>> \in {pair \in RideDays \X RideDays :
            /\ pair[1] < pair[2]
            /\ ~\E d \in RideDays : pair[1] < d /\ d < pair[2]}}

\* C13: longestBreakDays is null exactly when there are fewer than two
\* distinct ride dates; otherwise it is the largest number of whole days
\* strictly between two neighbouring distinct ride dates (0 for rides on
\* consecutive days only).
C13_LongestBreakIsLargestGap ==
    stats # Null =>
        IF Cardinality(RideDays) < 2 THEN stats[1].longestBreakDays = Null
        ELSE /\ stats[1].longestBreakDays # Null
             /\ stats[1].longestBreakDays[1] \in BreaksBetween
             /\ \A b \in BreaksBetween : b <= stats[1].longestBreakDays[1]

\* the local calendar date of the start of ride i in the browser's time zone
LocalDateOf(i) == LocalCivil(timeZone, rides[i].startTimeMs[1] \div MsPerHour)

\* the rides that start on the same local date as ride i
SameLocalDate(i) == {j \in StartedRides : LocalDateOf(j) = LocalDateOf(i)}

\* C14: mostRidesInDay is the largest number of rides that start on one local
\* calendar date (in the user's time zone, not the UTC date), and on a tie
\* the reported date is the first such date in ride order.
C14_MostRidesByLocalDate ==
    stats # Null =>
        IF StartedRides = {}
        THEN stats[1].mostRidesInDay = 0 /\ stats[1].mostRidesInDayDate = Null
        ELSE LET busiest == {i \in StartedRides :
                                \A j \in StartedRides :
                                    Cardinality(SameLocalDate(j))
                                        <= Cardinality(SameLocalDate(i))}
                 first == CHOOSE i \in busiest : \A j \in busiest : i <= j
             IN  /\ stats[1].mostRidesInDay = Cardinality(SameLocalDate(first))
                 /\ stats[1].mostRidesInDayDate # Null
                 /\ isoDateKey(stats[1].mostRidesInDayDate[1]) = LocalDateOf(first)

\* the rides that have both timestamps, and the duration of such a ride
TimedRides == {i \in StatsRideIndices : rides[i].startTimeMs # Null /\ rides[i].endTimeMs # Null}
DurationOf(i) == rides[i].endTimeMs[1] - rides[i].startTimeMs[1]

RoundedMinutes(i) == MathRound(DurationOf(i), MsPerMinute)

RECURSIVE SumDurations(_)
SumDurations(indices) ==
    IF indices = {} THEN 0
    ELSE LET i == CHOOSE x \in indices : TRUE
         IN  DurationOf(i) + SumDurations(indices \ {i})

RECURSIVE SumRoundedMinutes(_)
SumRoundedMinutes(indices) ==
    IF indices = {} THEN 0
    ELSE LET i == CHOOSE x \in indices : TRUE
         IN  RoundedMinutes(i) + SumRoundedMinutes(indices \ {i})

\* C15: a ride without start or end time counts in totalRides but not in the
\* average, minimum and maximum duration, totalTimeCyclingMinutes or the
\* duration histogram, and is never a duration of 0; when no ride has both
\* timestamps the duration statistics are null and there is no histogram.
C15_UntimedRidesLeftOut ==
    stats # Null =>
        /\ stats[1].totalRides = Len(rides)
        /\ stats[1].totalTimeCyclingMinutes = SumRoundedMinutes(TimedRides)
        /\ IF TimedRides = {}
           THEN /\ stats[1].avgDurationMinutes = Null
                /\ stats[1].minDurationMinutes = Null
                /\ stats[1].maxDurationMinutes = Null
                /\ journeyChart = Null
           ELSE /\ stats[1].avgDurationMinutes =
                     Some(MathRound(SumDurations(TimedRides),
                                    Cardinality(TimedRides) * MsPerMinute))
                /\ \E i \in TimedRides :
                     /\ stats[1].minDurationMinutes = Some(RoundedMinutes(i))
                     /\ \A j \in TimedRides : DurationOf(i) <= DurationOf(j)
                /\ \E i \in TimedRides :
                     /\ stats[1].maxDurationMinutes = Some(RoundedMinutes(i))
                     /\ \A j \in TimedRides : DurationOf(i) >= DurationOf(j)
                /\ journeyChart # Null
                /\ SumSeq(journeyChart[1].data) = Cardinality(TimedRides)

\* a 10-minute ride, a ride without end and a ride without start
C15_Witness ==
    /\ stats # Null
    /\ Len(rides) = 3
    /\ Cardinality(TimedRides) = 1
    /\ \E i \in StatsRideIndices : rides[i].startTimeMs # Null /\ rides[i].endTimeMs = Null
    /\ \E i \in StatsRideIndices : rides[i].startTimeMs = Null /\ rides[i].endTimeMs # Null
    /\ stats[1].avgDurationMinutes = Some(10)
    /\ stats[1].totalTimeCyclingMinutes = 10
    /\ journeyChart # Null /\ journeyChart[1].data = <<1>>

\* C16: a ride that ends before it starts is clamped to zero or left out: no
\* derived duration (minimum and average duration, totalTimeCyclingMinutes,
\* a route's minimum and average duration, the start of a histogram bin) is
\* negative.
C16_NoNegativeDuration ==
    /\ stats # Null =>
          /\ stats[1].minDurationMinutes # Null => stats[1].minDurationMinutes[1] >= 0
          /\ stats[1].avgDurationMinutes # Null => stats[1].avgDurationMinutes[1] >= 0
          /\ stats[1].totalTimeCyclingMinutes >= 0
    /\ \A r \in 1..Len(routeStats) :
          /\ routeStats[r].minDurationMinutes # Null => routeStats[r].minDurationMinutes[1] >= 0
          /\ routeStats[r].avgDurationMinutes # Null => routeStats[r].avgDurationMinutes[1] >= 0
    /\ journeyChart # Null =>
          \A n \in 1..Len(journeyChart[1].labels) : journeyChart[1].labels[n].from >= 0


-----------------------------------------------------------------------------
(***************************************************************************)
(* Specification of the scraper scripts: the user runs Script A and        *)
(* Script B in the console, one run at a time, may set                     *)
(* window.__stopFetching while a run is going, and the server answers      *)
(* each request with one of Responses.                                     *)
(***************************************************************************)
MaxRuns == 3
MaxFaults == 3

\* The ride histories of the member: none, three rides, and a history whose
\* summaries repeat an id and carry an empty one.
ServerHistories == { <<>>, <<"r1", "r2", "r3">>, <<"r1", "", "r1">> }

\* The analytics views are not mounted while the scripts run.
AnalyticsIdle ==
    /\ stations = <<>>
    /\ address = Null
    /\ found = Null
    /\ foundStats = Null
    /\ resolved = {}
    /\ rides = <<>>
    /\ routeStats = <<>>
    /\ stationStats = <<>>
    /\ journeyBucket = "1m"
    /\ journeyChart = Null
    /\ CalendarIdle
    /\ StatsIdle

InitScraper ==
    /\ AnalyticsIdle
    /\ AppAt(1)
    /\ UiIdle
    /\ serverRides \in ServerHistories
    /\ rideSummaries = Null
    /\ rideDetails = <<>>
    /\ stopFetching = FALSE
    /\ running = "none"
    /\ pc = "idle"
    /\ loc = NoLocals
    /\ attempt = 0
    /\ lastFailure = Null
    /\ backoffs = <<>>
    /\ requests = <<>>
    /\ runStart = [script |-> "none", summaries |-> Null, details |-> <<>>,
                   after |-> NoRun]
    /\ lastRun = NoRun
    /\ runCount = 0
    /\ faults = 0

webAppVars == <<stations, rides, resolverVars, tableVars, journeyVars,
                   calendarVars, statsVars, appVars, uiVars>>

\* A run begins: what it finds is noted for the claims.
Begin(script) ==
    /\ running = "none"
    /\ runCount < MaxRuns
    /\ runCount' = runCount + 1
    /\ runStart' = [script |-> script, summaries |-> rideSummaries,
                    details |-> rideDetails, after |-> lastRun]

\* A run ends.
End(script, outcome, console) ==
    /\ running' = "none"
    /\ pc' = "idle"
    /\ loc' = NoLocals
    /\ attempt' = 0
    /\ lastFailure' = Null
    /\ backoffs' = <<>>
    /\ lastRun' = Ended(script, outcome, console)

\* withRetries(fn) is entered and fn() issues its request.
CallWithRetries(request) ==
    /\ attempt' = 1
    /\ lastFailure' = Null
    /\ backoffs' = <<>>
    /\ requests' = Append(requests, request)

\* Script A is pasted into the console: the locals and the stop flag are
\* set and the first page is requested.
RunSummaries ==
    /\ Begin("A")
    /\ running' = "A"
    /\ loc' = SummaryLocals
    /\ stopFetching' = FALSE
    /\ pc' = "request"
    /\ attempt' = 1
    /\ lastFailure' = Null
    /\ backoffs' = <<>>
    /\ requests' = <<SummaryLocals.start>>
    /\ UNCHANGED <<webAppVars, serverRides, rideSummaries, rideDetails,
                   lastRun, faults>>

\* window.__stopFetching = true, typed while a script runs
UserStops ==
    /\ running # "none"
    /\ ~stopFetching
    /\ stopFetching' = TRUE
    /\ UNCHANGED <<webAppVars, serverRides, rideSummaries, rideDetails,
                   scriptVars, historyVars>>

\* Script A's catch: the progress is saved when there is any, and the error
\* is thrown on.
SummariesFailed ==
    /\ rideSummaries' = IF Len(loc.all) > 0 THEN Some(loc.all) ELSE rideSummaries
    /\ End("A", "failed", {})
    /\ UNCHANGED <<requests>>

\* all.push(...page) and what follows it in the loop body; without more
\* pages the loop ends and window.__rideSummaries = all.
PageDone(rh) ==
    LET all == loc.all \o rh.rideHistoryList
    IN  IF rh.hasMore
        THEN /\ loc' = [loc EXCEPT !.all = all, !.hasMore = TRUE,
                                   !.limit = rh.limit,
                                   !.start = loc.start + rh.limit]
             /\ pc' = "sleep"
             /\ UNCHANGED <<rideSummaries, running, attempt, lastFailure,
                            backoffs, lastRun, requests>>
        ELSE /\ rideSummaries' = Some(all)
             /\ End("A", "complete", SummariesDone)
             /\ UNCHANGED <<requests>>

\* fn() threw e inside withRetries: the error is thrown on and ends the run
\* through the catch of the script, or the request is issued again after
\* the backoff.
Retry(script, e, response, failed) ==
    \E jit \in jitter(script) :
        LET turn == withRetries(script, e, attempt, jit)
        IN  IF turn.do = "throw" THEN failed
            ELSE /\ attempt' = attempt + 1
                 /\ lastFailure' = Some(response)
                 /\ backoffs' = Append(backoffs, turn.backoff)
                 /\ requests' = Append(requests, requests[Len(requests)])
                 /\ UNCHANGED <<rideSummaries, rideDetails, running, pc, loc,
                                lastRun>>

IsFault(response) == response.body # "payload"

\* The server answers a request of Script A.
SummariesResponse ==
    /\ running = "A"
    /\ pc \in {"request", "testRequest"}
    /\ \E response \in Responses :
        /\ IsFault(response) => faults < MaxFaults
        /\ faults' = IF IsFault(response) THEN faults + 1 ELSE faults
        /\ LET e == gql(response)
               rh == rideHistory(serverRides, loc.start)
           IN  IF ~e.ok THEN Retry("A", e, response, SummariesFailed)
               ELSE IF response.body = "noPayload" THEN SummariesFailed
               ELSE IF pc = "request" /\ Len(rh.rideHistoryList) = 0 /\ loc.hasMore
               THEN /\ pc' = "testRequest"
                    /\ CallWithRetries(loc.start)
                    /\ UNCHANGED <<rideSummaries, running, loc, lastRun>>
               ELSE PageDone(rh)
    /\ UNCHANGED <<webAppVars, serverRides, rideDetails, stopFetching,
                   runStart, runCount>>

\* The sleep between two pages is over and the loop comes round: the stop
\* flag is looked at, then the next page is requested.
SummariesNextPage ==
    /\ running = "A"
    /\ pc = "sleep"
    /\ IF stopFetching
       THEN /\ rideSummaries' = Some(loc.all)
            /\ End("A", "stopped", {StoppedByUser} \cup SummariesDone)
            /\ UNCHANGED <<requests>>
       ELSE /\ pc' = "request"
            /\ CallWithRetries(loc.start)
            /\ UNCHANGED <<rideSummaries, running, loc, lastRun>>
    /\ UNCHANGED <<webAppVars, serverRides, rideDetails, stopFetching,
                   runStart, runCount, faults>>

\* The for loop of Script B comes round at index i: it ends, breaks on the
\* stop flag, or passes over the cached ids to the next request.
DetailsLoop(rideIds, i, stop) ==
    LET next == nextUncached(rideIds, rideDetails', i)
        issued == IF running = "B" THEN requests ELSE <<>>
        done == DetailsDone(rideIds, rideDetails')
    IN  IF i > Len(rideIds)
        THEN End("B", "complete", done) /\ requests' = issued
        ELSE IF stop
        THEN End("B", "stopped", {StoppedByUser} \cup done) /\ requests' = issued
        ELSE IF next > Len(rideIds)
        THEN End("B", "complete", done) /\ requests' = issued
        ELSE /\ running' = "B"
             /\ pc' = "request"
             /\ loc' = [NoLocals EXCEPT !.rideIds = rideIds, !.i = next]
             /\ attempt' = 1
             /\ lastFailure' = Null
             /\ backoffs' = <<>>
             /\ requests' = Append(issued, rideIds[next])
             /\ UNCHANGED <<lastRun>>

\* Script B is pasted into the console: without summaries it throws at
\* once, otherwise it takes the unique ride ids and enters its loop.
RunDetails ==
    /\ Begin("B")
    /\ IF rideSummaries = Null \/ Len(rideSummaries[1]) = 0
       THEN /\ End("B", "failed", {})
            /\ requests' = <<>>
            /\ UNCHANGED <<rideDetails, stopFetching>>
       ELSE /\ rideDetails' = rideDetails
            /\ stopFetching' = FALSE
            /\ DetailsLoop(uniqueRideIds(rideSummaries[1], <<>>), 1, FALSE)
    /\ UNCHANGED <<webAppVars, serverRides, rideSummaries, faults>>

\* Script B's catch: it reports and throws the error on.
DetailsFailed ==
    /\ End("B", "failed", {})
    /\ UNCHANGED <<rideDetails, requests>>

\* The server answers a request of Script B.
DetailsResponse ==
    /\ running = "B"
    /\ pc = "request"
    /\ \E response \in Responses :
        /\ IsFault(response) => faults < MaxFaults
        /\ faults' = IF IsFault(response) THEN faults + 1 ELSE faults
        /\ LET e == gql(response)
               rideId == loc.rideIds[loc.i]
           IN  IF ~e.ok THEN Retry("B", e, response, DetailsFailed)
               ELSE /\ rideDetails' =
                          (rideId :> (IF response.body = "noPayload" THEN Null
                                      ELSE Some(transformRideDetail(rideId))))
                          @@ rideDetails
                    /\ pc' = "sleep"
                    /\ UNCHANGED <<running, loc, attempt, lastFailure, backoffs,
                                   lastRun, requests>>
    /\ UNCHANGED <<webAppVars, serverRides, rideSummaries, stopFetching,
                   runStart, runCount>>

\* The sleep after a request of Script B is over and the loop comes round.
DetailsNextRide ==
    /\ running = "B"
    /\ pc = "sleep"
    /\ rideDetails' = rideDetails
    /\ DetailsLoop(loc.rideIds, loc.i + 1, stopFetching)
    /\ UNCHANGED <<webAppVars, serverRides, rideSummaries, stopFetching,
                   runStart, runCount, faults>>

NextScraper ==
    \/ RunSummaries
    \/ UserStops
    \/ SummariesResponse
    \/ SummariesNextPage
    \/ RunDetails
    \/ DetailsResponse
    \/ DetailsNextRide

SpecScraper == InitScraper /\ [][NextScraper]_vars

-----------------------------------------------------------------------------
(* Claims about the scraper scripts *)

\* the current run of Script A follows a run of Script A that was stopped or
\* failed and left rides saved in window.__rideSummaries
ResumedSummaries ==
    /\ runStart.script = "A"
    /\ runStart.after.script = "A"
    /\ runStart.after.outcome \in {"stopped", "failed"}
    /\ runStart.summaries # Null
    /\ Len(runStart.summaries[1]) > 0

IsPrefixOf(s, t) == Len(s) <= Len(t) /\ SubSeq(t, 1, Len(s)) = s

\* C17: a run of Script A that follows a stopped or failed run continues
\* from where that run left off: no request of the run asks for an offset
\* below the number of rides already saved, and the saved rides stay at the
\* front of window.__rideSummaries.
C17_SummariesResume ==
    ResumedSummaries =>
        /\ \A k \in 1..Len(requests) : requests[k] >= Len(runStart.summaries[1])
        /\ rideSummaries # Null
        /\ IsPrefixOf(runStart.summaries[1], rideSummaries[1])

\* the ride ids that the current run of Script B found cached with a
\* non-null value when it started
CachedAtStart ==
    {id \in DOMAIN runStart.details : runStart.details[id] # Null}

\* the unique ride ids of window.__rideSummaries
SummaryIds ==
    IF rideSummaries = Null THEN {}
    ELSE {rideSummaries[1][k] : k \in 1..Len(rideSummaries[1])} \ {""}

\* the ride ids the current run has requested
RequestedIds == {requests[k] : k \in 1..Len(requests)}

DetailsRunCompleted ==
    runStart.script = "B" /\ running = "none" /\ lastRun.script = "B" /\ lastRun.outcome = "complete"

\* C18: a run of Script B issues no request for a ride id that it found
\* cached with a non-null value, a run that gets through its loop has
\* requested every other unique ride id of window.__rideSummaries, and no
\* step of either script, an error or logout included, removes or replaces
\* details that window.__rideDetails holds.
C18_DetailsResume ==
    [][ /\ (runStart.script = "B" => RequestedIds \cap CachedAtStart = {})'
        /\ (DetailsRunCompleted =>
                SummaryIds \ CachedAtStart \subseteq RequestedIds)'
        /\ \A id \in DOMAIN rideDetails :
                rideDetails[id] # Null =>
                    /\ id \in DOMAIN rideDetails'
                    /\ rideDetails'[id] = rideDetails[id] ]_vars

\* a run of Script B that followed a failed run got through its loop: it
\* skipped a cached ride id and requested another one
C18_Witness ==
    /\ DetailsRunCompleted
    /\ runStart.after = Ended("B", "failed", {})
    /\ CachedAtStart # {}
    /\ RequestedIds # {}
    /\ \A id \in SummaryIds : IsCached(rideDetails, id)

\* a response that indicates session expiry or logout: isLoggedOut says so
\* (status 401 or 403, or no member data), or the body is the HTML of the
\* login page instead of JSON
IndicatesLogout(response) == isLoggedOut(response) \/ response.body = "html"

\* C19: while a withRetries call of either script has a request out, the
\* request has been invoked at most MAX_RETRIES (3) times, no invocation
\* followed a failure that indicates session expiry or logout, every
\* other failure was followed by one backoff and the backoffs grow with
\* the attempt number; so the third failure ends the run.
C19_RetriesBounded ==
    (running # "none" /\ pc \in {"request", "testRequest"}) =>
        /\ attempt >= 1
        /\ attempt <= MAX_RETRIES
        /\ lastFailure # Null => ~IndicatesLogout(lastFailure[1])
        /\ Len(backoffs) = attempt - 1
        /\ \A k \in 1..(Len(backoffs) - 1) : backoffs[k] < backoffs[k + 1]

-----------------------------------------------------------------------------
(***************************************************************************)
(* Specification of the App: the page is loaded with whatever the browser  *)
(* has stored, the user moves between the steps, pastes a text in Step 3,  *)
(* presses Parse & Validate or Clear Saved Data, and reloads the page.     *)
(***************************************************************************)

\* Rides as Script B copies them to the clipboard: a ride with every field
\* set, a key the schema does not know and a key written twice; a ride with
\* every field null; a ride whose startTimeMs is a string.
FullRideDoc ==
    JObj(<<Member("rideId", JStr("r1")),
           Member("startTimeMs", JNum(100)),
           Member("endTimeMs", JNum(700)),
           Member("startAddress", JStr("Hyde Park Corner")),
           Member("endAddress", JNull),
           Member("price", JStr("1.65")),
           Member("priceBreakdown",
                  JArr(<<JObj(<<Member("title", JStr("Ride")),
                                Member("amount", JNull)>>)>>)),
           Member("paymentMethod",
                  JObj(<<Member("cardType", JStr("visa")),
                         Member("lastFour", JNull)>>)),
           Member("duration", JNum(600)),
           Member("price", JStr("£1.65"))>>)

NullRideDoc ==
    JObj(<<Member("rideId", JNull),
           Member("startTimeMs", JNull),
           Member("endTimeMs", JNull),
           Member("startAddress", JNull),
           Member("endAddress", JNull),
           Member("price", JNull),
           Member("priceBreakdown", JNull),
           Member("paymentMethod", JNull)>>)

BadRideDoc ==
    JObj(<<Member("rideId", JStr("r2")),
           Member("startTimeMs", JStr("100")),
           Member("endTimeMs", JNull),
           Member("startAddress", JNull),
           Member("endAddress", JNull),
           Member("price", JNull),
           Member("priceBreakdown", JNull),
           Member("paymentMethod", JNull)>>)

\* What the user may paste into the textarea
PastedTexts ==
    { BlankText,
      MalformedText,
      JsonText(JArr(<<>>)),
      JsonText(JArr(<<FullRideDoc>>)),
      JsonText(JArr(<<NullRideDoc, FullRideDoc>>)),
      JsonText(JArr(<<BadRideDoc>>)),
      JsonText(JObj(<<Member("rides", JArr(<<NullRideDoc>>))>>)) }

\* What the browser may hold under STORAGE_KEY when the page is first
\* loaded: nothing, a text that is not JSON, the old format (an array), the
\* new format, rides that do not validate, an object without rides, null.
StoredItems ==
    { Null,
      Some(MalformedText),
      Some(JsonText(JArr(<<NullRideDoc>>))),
      Some(JsonText(JObj(<<Member("rides", JArr(<<>>))>>))),
      Some(JsonText(JObj(<<Member("rides", JArr(<<BadRideDoc>>)),
                           Member("savedAt", JNum(5))>>))),
      Some(JsonText(JObj(<<Member("savedAt", JNum(5))>>))),
      Some(JsonText(JNull)) }

InitApp ==
    /\ stations = <<>>
    /\ address = Null
    /\ found = Null
    /\ foundStats = Null
    /\ resolved = {}
    /\ routeStats = <<>>
    /\ stationStats = <<>>
    /\ journeyBucket = "1m"
    /\ journeyChart = Null
    /\ CalendarIdle
    /\ StatsIdle
    /\ ScraperIdle
    /\ storage \in StoredItems
    /\ currentStep = InitialStep(storage)
    /\ rides = InitialRides(storage)
    /\ paste = Null
    /\ parsedRides = Null
    /\ UiIdle

otherVars == <<stations, resolverVars, tableVars, journeyVars, calendarVars,
               statsVars, scraperVars, uiVars>>

\* The page is loaded again: the state of the App is initialised from the
\* storage.
PageLoad ==
    /\ currentStep' = InitialStep(storage)
    /\ rides' = InitialRides(storage)
    /\ paste' = Null
    /\ UNCHANGED <<storage, parsedRides, otherVars>>

\* setCurrentStep(step): Step3PasteData mounts when step 3 comes to be
\* shown and unmounts when another step is.
ShowStep(step) ==
    /\ currentStep' = step
    /\ paste' = IF step # 3 THEN Null
                ELSE IF currentStep = 3 THEN paste
                ELSE Mounted(storage)

\* a click on a circle of the step indicator
goToStep ==
    /\ \E step \in 1..4 : ShowStep(step)
    /\ UNCHANGED <<storage, rides, parsedRides, otherVars>>

handleStep1Complete ==
    /\ currentStep = 1
    /\ ShowStep(2)
    /\ UNCHANGED <<storage, rides, parsedRides, otherVars>>

handleStep2Complete ==
    /\ currentStep = 2
    /\ ShowStep(3)
    /\ UNCHANGED <<storage, rides, parsedRides, otherVars>>

\* the onChange of the textarea
ChangeJsonInput ==
    /\ currentStep = 3
    /\ \E text \in PastedTexts :
        paste' = Some([paste[1] EXCEPT !.jsonInput = text, !.error = Null,
                                       !.success = FALSE])
    /\ UNCHANGED <<storage, currentStep, rides, parsedRides, otherVars>>

\* a plausible slip: the pasted text is stored before it is validated
validateAndParse_SaveBeforeValidate ==
    /\ currentStep = 3
    /\ LET jsonInput == paste[1].jsonInput
           cleared == [paste[1] EXCEPT !.error = Null, !.success = FALSE,
                                       !.rideCount = Null]
           validationResult == safeParse(JSONparse(jsonInput.doc))
       IN  IF jsonInput.syntax = "blank"
           THEN /\ paste' = Some([cleared EXCEPT
                                    !.error = Some("Please paste your JSON data")])
                /\ UNCHANGED <<storage, currentStep, rides, parsedRides>>
           ELSE IF ParseThrows(jsonInput)
           THEN /\ paste' = Some([cleared EXCEPT !.error = Some("Invalid JSON")])
                /\ UNCHANGED <<storage, currentStep, rides, parsedRides>>
           ELSE IF ~validationResult.success
           THEN /\ paste' = Some([cleared EXCEPT !.error = Some("Validation error")])
                /\ storage' = Some(jsonInput)
                /\ UNCHANGED <<currentStep, rides, parsedRides>>
           ELSE /\ \E setItemThrows \in BOOLEAN :
                     storage' = IF setItemThrows THEN storage
                                ELSE Some(StoredDataText(validationResult.data))
                /\ rides' = validationResult.data
                /\ parsedRides' = Some(validationResult.data)
                /\ ShowStep(4)
    /\ UNCHANGED otherVars

\* Parse & Validate.  localStorage.setItem stores the text or throws (the
\* quota is exceeded, the storage is disabled); saveToLocalStorage catches
\* what it throws.
validateAndParse ==
    /\ currentStep = 3
    /\ LET jsonInput == paste[1].jsonInput
           cleared == [paste[1] EXCEPT !.error = Null, !.success = FALSE,
                                       !.rideCount = Null]
           validationResult == safeParse(JSONparse(jsonInput.doc))
       IN  IF jsonInput.syntax = "blank"
           THEN /\ paste' = Some([cleared EXCEPT
                                    !.error = Some("Please paste your JSON data")])
                /\ UNCHANGED <<storage, currentStep, rides, parsedRides>>
           ELSE IF ParseThrows(jsonInput)
           THEN /\ paste' = Some([cleared EXCEPT !.error = Some("Invalid JSON")])
                /\ UNCHANGED <<storage, currentStep, rides, parsedRides>>
           ELSE IF ~validationResult.success
           THEN /\ paste' = Some([cleared EXCEPT !.error = Some("Validation error")])
                /\ UNCHANGED <<storage, currentStep, rides, parsedRides>>
           ELSE /\ \E setItemThrows \in BOOLEAN :
                     storage' = IF setItemThrows THEN storage
                                ELSE Some(StoredDataText(validationResult.data))
                /\ rides' = validationResult.data
                /\ parsedRides' = Some(validationResult.data)
                /\ ShowStep(4)
    /\ UNCHANGED otherVars

\* Clear Saved Data, shown in Step 3 while storedDataInfo is set
clearLocalStorage ==
    /\ currentStep = 3
    /\ paste[1].storedDataInfo # Null
    /\ storage' = Null
    /\ paste' = Some([jsonInput |-> BlankText, error |-> Null, success |-> FALSE,
                      rideCount |-> Null, storedDataInfo |-> Null])
    /\ parsedRides' = Null
    /\ UNCHANGED <<currentStep, rides, otherVars>>

NextApp ==
    \/ PageLoad
    \/ goToStep
    \/ handleStep1Complete
    \/ handleStep2Complete
    \/ ChangeJsonInput
    \/ validateAndParse
    \/ clearLocalStorage

SpecApp == InitApp /\ [][NextApp]_vars

-----------------------------------------------------------------------------
(* Claims about persistence *)

\* C20: once Parse & Validate has accepted a list, and for as long as Clear
\* Saved Data is not pressed, the list is in localStorage and a page load
\* starts the App at step 4 with exactly that list.
C20_PersistenceRoundTrip ==
    parsedRides # Null =>
        /\ storage # Null
        /\ InitialStep(storage) = 4
        /\ InitialRides(storage) = parsedRides[1]

\* the pasted text is blank, is not JSON, or fails RidesArraySchema
RejectedText(text) ==
    \/ text.syntax # "json"
    \/ ~safeParse(JSONparse(text.doc)).success

\* C22: an error message is put up only for a pasted text that is blank,
\* not JSON or not a valid ride list, and the step that puts it up changes
\* nothing else: localStorage, the rides and the step of the App stay as
\* they were (onDataParsed, which sets the rides and step 4, is not called);
\* and a text of that kind is never accepted.
C22_FailedParseChangesNothing ==
    [][ /\ (paste' # Null /\ paste'[1].error # Null /\ paste' # paste) =>
                /\ paste # Null
                /\ RejectedText(paste[1].jsonInput)
                /\ paste'[1].jsonInput = paste[1].jsonInput
                /\ storage' = storage
                /\ rides' = rides
                /\ currentStep' = currentStep
                /\ parsedRides' = parsedRides
        /\ (paste # Null /\ RejectedText(paste[1].jsonInput)
                /\ parsedRides' # Null) => parsedRides' = parsedRides ]_vars

\* Parse & Validate has put up an error while a list is stored and loaded
C22_Witness ==
    /\ currentStep = 3
    /\ paste # Null
    /\ paste[1].error = Some("Validation error")
    /\ storage # Null
    /\ Len(rides) > 0
    /\ parsedRides # Null

\* the item of localStorage holds a valid ride list that is not empty, as an
\* array (old format) or as the rides of an object (new format)
HoldsRides(stored) ==
    /\ stored # Null
    /\ stored[1].syntax = "json"
    /\ LET parsed == JSONparse(stored[1].doc)
           list == IF parsed.t = "array" THEN parsed ELSE Prop(parsed, "rides")
       IN /\ safeParse(list).success
          /\ Len(safeParse(list).data) > 0

\* C27: a load of the page with the item that localStorage holds starts at
\* step 4 only if the item holds a valid ride list that is not empty;
\* otherwise it starts at step 1 with an empty ride list.
C27_AutoAdvanceOnlyWithRides ==
    IF HoldsRides(storage)
    THEN InitialStep(storage) = 4 /\ Len(InitialRides(storage)) > 0
    ELSE InitialStep(storage) = 1 /\ InitialRides(storage) = <<>>

\* C26: a step that removes the item of localStorage (Clear Saved Data)
\* leaves no rides in the session either, so that step 4, shown afterwards
\* without a new paste, has no data to preview.
C26_ClearForgetsRides ==
    [][(storage # Null /\ storage' = Null) => rides' = <<>>]_vars

\* C28: a run announces completion (the COMPLETE banner, and for Script B
\* the export of the rides) only when its loop has come to its end with
\* every page or ride id processed; a run stopped through
\* window.__stopFetching says that it was stopped and announces no
\* completion.
C28_CompletionOnlyWhenDone ==
    /\ lastRun.console \cap {Complete, Exported} # {} =>
            lastRun.outcome = "complete"
    /\ lastRun.outcome = "stopped" =>
            /\ StoppedByUser \in lastRun.console
            /\ lastRun.console \cap {Complete, Exported} = {}

\* an address that is not empty and consists of whitespace only
WhitespaceOnly(addr) == addr # Null /\ addr[1] # <<>> /\ trim(addr[1]) = <<>>

\* C30: with a directory that is not empty, an address of whitespace only
\* resolves to null in both copies of the resolver, as the empty address
\* does.
C30_WhitespaceResolvesToNull ==
    (stations # <<>> /\ WhitespaceOnly(address)) =>
        /\ "table" \in resolved => found = Null
        /\ "stats" \in resolved => foundStats = Null

\* C25: the bins of the duration histogram cover the observed range and
\* nothing beyond it: the first bin holds the minimum duration, the last
\* bin holds the maximum, and no bin lies entirely above the maximum.
C25_BinsCoverObservedRange ==
    LET secs == QualifyingSeconds
        q == DOMAIN secs
        width == bucketWidthSeconds[journeyBucket]
    IN  (q # {} /\ journeyChart # Null) =>
            LET lo == CHOOSE x \in {secs[i] : i \in q} : \A i \in q : x <= secs[i]
                hi == CHOOSE x \in {secs[i] : i \in q} : \A i \in q : x >= secs[i]
                data == journeyChart[1].data
                n == Len(data)
            IN  /\ n >= 1
                /\ data[1] >= 1
                /\ data[n] >= 1
                /\ lo + (n - 1) * width <= hi
                /\ hi < lo + n * width

-----------------------------------------------------------------------------
(* RoutesTable and StationsTable as Step4Preview mounts them, once the     *)
(* station feed is loaded: the sort state of each table, the selection     *)
(* that Step4Preview holds for it, and the effect that selects every row   *)
(* on first load.                                                          *)

Tables == {"routes", "stations"}
SortFields ==
    [routes |-> {"startStation", "endStation", "count", "distance",
                 "avgDuration", "minDuration", "maxDuration"},
     stations |-> {"name", "pickups", "dropoffs", "total", "net"}]
InitialSortField == [routes |-> "count", stations |-> "total"]

\* a plausible slip: a header toggles between desc and asc only
handleSort_Toggle(current, field) ==
    IF current.sortField = field
    THEN [current EXCEPT !.sortDirection = IF @ = "desc" THEN "asc" ELSE "desc"]
    ELSE [sortField |-> field, sortDirection |-> "desc"]

\* handleSort(field) on the sort state of a table
handleSort(current, field) ==
    IF current.sortField = field
    THEN [current EXCEPT !.sortDirection =
            IF @ = "desc" THEN "asc" ELSE IF @ = "asc" THEN "none" ELSE "desc"]
    ELSE [sortField |-> field, sortDirection |-> "desc"]

\* a.localeCompare(b) for lowercase names: the first differing character
\* decides, by its place in the collation order; a prefix comes first
CollationOrder ==
    <<" ", ",", "-", "0", "1", "2", "3", "4", "5", "6", "7", "8", "9",
      "a", "b", "c", "d", "e", "f", "g", "h", "i", "j", "k", "l", "m",
      "n", "o", "p", "q", "r", "s", "t", "u", "v", "w", "x", "y", "z">>
CollationRank(c) == CHOOSE i \in 1..Len(CollationOrder) : CollationOrder[i] = c
RECURSIVE localeCompare(_, _)
localeCompare(a, b) ==
    IF a = <<>> /\ b = <<>> THEN 0
    ELSE IF a = <<>> THEN -1
    ELSE IF b = <<>> THEN 1
    ELSE IF Head(a) # Head(b) THEN CollationRank(Head(a)) - CollationRank(Head(b))
    ELSE localeCompare(Tail(a), Tail(b))

\* value ?? 0
OrZero(value) == IF value = Null THEN 0 ELSE value[1]

\* the comparator of sorted.sort((a, b) => ...) of either table
RowCompare(table, a, b, field, direction) ==
    LET ascending ==
            CASE field = "startStation" ->
                    localeCompare(toLowerCase(a.startStation.name),
                                  toLowerCase(b.startStation.name))
              [] field = "endStation" ->
                    localeCompare(toLowerCase(a.endStation.name),
                                  toLowerCase(b.endStation.name))
              [] field = "count" -> a.count - b.count
              [] field = "avgDuration" ->
                    OrZero(a.avgDurationMinutes) - OrZero(b.avgDurationMinutes)
              [] field = "minDuration" ->
                    OrZero(a.minDurationMinutes) - OrZero(b.minDurationMinutes)
              [] field = "maxDuration" ->
                    OrZero(a.maxDurationMinutes) - OrZero(b.maxDurationMinutes)
              [] field = "distance" -> a.distanceKm - b.distanceKm
              [] field = "name" ->
                    localeCompare(toLowerCase(a.station.name),
                                  toLowerCase(b.station.name))
              [] field = "pickups" -> a.pickups - b.pickups
              [] field = "dropoffs" -> a.dropoffs - b.dropoffs
              [] field = "total" -> a.total - b.total
              [] field = "net" -> a.net - b.net
    IN  IF direction = "asc" THEN ascending ELSE 0 - ascending

\* Array.prototype.sort is stable: a row goes in front of the first row
\* that the comparator puts after it
RECURSIVE InsertRow(_, _, _, _, _)
InsertRow(table, sorted, row, field, direction) ==
    IF sorted = <<>> THEN <<row>>
    ELSE IF RowCompare(table, Head(sorted), row, field, direction) > 0
    THEN <<row>> \o sorted
    ELSE <<Head(sorted)>> \o InsertRow(table, Tail(sorted), row, field, direction)

RECURSIVE ArraySort(_, _, _, _, _)
ArraySort(table, sorted, rows, field, direction) ==
    IF rows = <<>> THEN sorted
    ELSE ArraySort(table, InsertRow(table, sorted, Head(rows), field, direction),
                   Tail(rows), field, direction)

\* the sortedRoutes memo of RoutesTable
sortedRoutes(routes, field, direction) ==
    IF direction = "none" THEN routes
    ELSE ArraySort("routes", <<>>, routes, field, direction)

\* the sortedStats memo of StationsTable
sortedStats(stationRows, field, direction) ==
    IF direction = "none" THEN stationRows
    ELSE ArraySort("stations", <<>>, stationRows, field, direction)

\* sortedStats.filter((stat) => stat.total > 0)
visitedStations(stationRows, field, direction) ==
    LET Visited(stat) == stat.total > 0
    IN  SelectSeq(sortedStats(stationRows, field, direction), Visited)

getRouteKey(route) == RouteKey(route.startStation, route.endStation)

\* the keys of the rows a table shows: route keys, ids of visited stations
RowKeys(table, routes, stationRows) ==
    IF table = "routes"
    THEN {getRouteKey(routes[k]) : k \in 1..Len(routes)}
    ELSE {stationRows[k].station.id :
            k \in {j \in 1..Len(stationRows) : stationRows[j].total > 0}}

\* a plausible slip: the effect without its initializedRef guard
AutoSelect_NoRef(rowKeys, selected, initialized) ==
    IF rowKeys # {} /\ selected = {}
    THEN [selected |-> rowKeys, initialized |-> TRUE, fired |-> 1]
    ELSE [selected |-> selected, initialized |-> initialized, fired |-> 0]

\* the "Auto-select all ... on first load" effect of a table, run after a
\* render: what the selection and the ref are afterwards
AutoSelect(rowKeys, selected, initialized) ==
    IF rowKeys # {} /\ ~initialized /\ selected = {}
    THEN [selected |-> rowKeys, initialized |-> TRUE, fired |-> 1]
    ELSE [selected |-> selected, initialized |-> initialized, fired |-> 0]

\* The effects of both tables run after a render in which the selections
\* have become newRoutes and newStations.
RunEffects(routes, stationRows, newRoutes, newStations, refs, fired) ==
    LET r == AutoSelect(RowKeys("routes", routes, stationRows), newRoutes,
                        refs.routes)
        s == AutoSelect(RowKeys("stations", routes, stationRows), newStations,
                        refs.stations)
    IN  /\ selectedRoutes' = r.selected
        /\ selectedStations' = s.selected
        /\ initializedRef' = [routes |-> r.initialized, stations |-> s.initialized]
        /\ autoSelections' = [routes |-> fired.routes + r.fired,
                              stations |-> fired.stations + s.fired]

\* the ride lists of a visit to step 4: none, one that resolves nowhere, a
\* round trip, and two routes whose second has more rides than the first
ViewRideLists ==
    {<<>>,
     <<Ride(AddrUnknown, AddrUnknown, Some(0), Some(600000))>>,
     <<Ride(AddrHydePark, AddrHydePark, Some(0), Some(600000))>>,
     <<Ride(AddrHydePark, AddrBank, Some(0), Some(600000)),
       Ride(AddrBank, AddrHydePark, Some(0), Some(90000)),
       Ride(AddrBank, AddrHydePark, Some(0), Null)>>}

\* the first render of the tables over their memos, and their effects
FirstRender(routes, stationRows) ==
    LET first == AutoSelect(RowKeys("routes", routes, stationRows), {}, FALSE)
        second == AutoSelect(RowKeys("stations", routes, stationRows), {}, FALSE)
    IN  [routeStats |-> routes, stationStats |-> stationRows,
         selectedRoutes |-> first.selected,
         selectedStations |-> second.selected,
         initializedRef |-> [routes |-> first.initialized,
                             stations |-> second.initialized],
         autoSelections |-> [routes |-> first.fired, stations |-> second.fired]]

\* Step4Preview mounts the tables when the feed has loaded
MountTables(rideList, dir) ==
    CHOOSE mounted \in
        {FirstRender(routes, stationRows) :
            routes \in {RouteStatsMemo(rideList, dir)},
            stationRows \in {StationStatsMemo(rideList, dir)}} : TRUE

\* the mount of each ride list over each directory
Mounts ==
    [dir \in TableDirectories |->
        [rideList \in ViewRideLists |-> MountTables(rideList, dir)]]

InitView ==
    /\ stations \in TableDirectories
    /\ rides \in ViewRideLists
    /\ LET mounted == Mounts[stations][rides]
       IN  /\ routeStats = mounted.routeStats
           /\ stationStats = mounted.stationStats
           /\ selectedRoutes = mounted.selectedRoutes
           /\ selectedStations = mounted.selectedStations
           /\ initializedRef = mounted.initializedRef
           /\ autoSelections = mounted.autoSelections
    /\ sortField = InitialSortField
    /\ sortDirection = [routes |-> "desc", stations |-> "desc"]
    /\ sessions = <<>>
    /\ address = Null
    /\ found = Null
    /\ foundStats = Null
    /\ resolved = {}
    /\ journeyBucket = "1m"
    /\ journeyChart = Null
    /\ CalendarIdle
    /\ StatsIdle
    /\ ScraperIdle
    /\ AppAt(4)

viewRest == <<resolverVars, journeyVars, calendarVars, statsVars, scraperVars,
              appVars, sessions>>

\* a click on a column header of a table
ClickHeader(table, field) ==
    /\ LET next == handleSort([sortField |-> sortField[table],
                               sortDirection |-> sortDirection[table]], field)
       IN  /\ sortField' = [sortField EXCEPT ![table] = next.sortField]
           /\ sortDirection' = [sortDirection EXCEPT ![table] = next.sortDirection]
    /\ RunEffects(routeStats, stationStats, selectedRoutes, selectedStations,
                  initializedRef, autoSelections)
    /\ UNCHANGED <<stations, rides, tableVars, viewRest>>

\* the checkbox of a row: handleCheckboxChange
handleCheckboxChange(table, key, checked) ==
    /\ key \in RowKeys(table, routeStats, stationStats)
    /\ LET current == IF table = "routes" THEN selectedRoutes ELSE selectedStations
           newSelected == IF checked THEN current \cup {key} ELSE current \ {key}
       IN  /\ newSelected # current
           /\ RunEffects(routeStats, stationStats,
                         IF table = "routes" THEN newSelected ELSE selectedRoutes,
                         IF table = "stations" THEN newSelected ELSE selectedStations,
                         initializedRef, autoSelections)
    /\ UNCHANGED <<stations, rides, tableVars, sortField, sortDirection, viewRest>>

\* the checkbox in the header of a table: every shown row, or none
SelectAllChange(table, checked) ==
    /\ LET current == IF table = "routes" THEN selectedRoutes ELSE selectedStations
           newSelected == IF checked THEN RowKeys(table, routeStats, stationStats)
                          ELSE {}
       IN  /\ newSelected # current
           /\ RunEffects(routeStats, stationStats,
                         IF table = "routes" THEN newSelected ELSE selectedRoutes,
                         IF table = "stations" THEN newSelected ELSE selectedStations,
                         initializedRef, autoSelections)
    /\ UNCHANGED <<stations, rides, tableVars, sortField, sortDirection, viewRest>>

\* The user leaves step 4 and comes back, with the same rides or after a
\* new paste: Step4Preview and its tables are mounted afresh.
Remount ==
    /\ \E rideList \in ViewRideLists :
        LET mounted == Mounts[stations][rideList]
        IN  /\ rides' = rideList
            /\ routeStats' = mounted.routeStats
            /\ stationStats' = mounted.stationStats
            /\ selectedRoutes' = mounted.selectedRoutes
            /\ selectedStations' = mounted.selectedStations
            /\ initializedRef' = mounted.initializedRef
            /\ autoSelections' = mounted.autoSelections
    /\ sortField' = InitialSortField
    /\ sortDirection' = [routes |-> "desc", stations |-> "desc"]
    /\ UNCHANGED <<stations, viewRest>>

UserSelects(table) ==
    \/ \E key \in RowKeys(table, routeStats, stationStats), checked \in BOOLEAN :
            handleCheckboxChange(table, key, checked)
    \/ \E checked \in BOOLEAN : SelectAllChange(table, checked)

NextView ==
    \/ \E table \in Tables : \E field \in SortFields[table] : ClickHeader(table, field)
    \/ \E table \in Tables : UserSelects(table)
    \/ Remount

SpecView == InitView /\ [][NextView]_vars

-----------------------------------------------------------------------------
(* Claims about the tables (SpecView) *)

\* the direction after desc, asc and none
CycleNext(direction) ==
    CASE direction = "desc" -> "asc"
      [] direction = "asc" -> "none"
      [] direction = "none" -> "desc"

\* C23: a click on the header of the column a table is sorted by takes the
\* direction from desc to asc, from asc to none and from none to desc; a
\* click on another header sorts by that column, descending; the other
\* table keeps its sort state; and while the direction is none the rows are
\* shown in the order of the aggregation.
C23_SortCycle ==
    [][ /\ \A table \in Tables : \A field \in SortFields[table] :
            ClickHeader(table, field) =>
                /\ sortField'[table] = field
                /\ sortDirection'[table] =
                        IF sortField[table] = field
                        THEN CycleNext(sortDirection[table])
                        ELSE "desc"
                /\ \A other \in Tables \ {table} :
                        /\ sortField'[other] = sortField[other]
                        /\ sortDirection'[other] = sortDirection[other]
        /\ sortDirection'.routes = "none" =>
                sortedRoutes(routeStats', sortField'.routes,
                             sortDirection'.routes) = routeStats'
        /\ sortDirection'.stations = "none" =>
                LET Visited(stat) == stat.total > 0
                IN  visitedStations(stationStats', sortField'.stations,
                                    sortDirection'.stations)
                        = SelectSeq(stationStats', Visited) ]_vars

\* the routes table has come to "none" on its count column, where the
\* aggregation order differs from the descending one, while the stations
\* table is sorted by name, ascending
C23_Witness ==
    /\ sortField.routes = "count"
    /\ sortDirection.routes = "none"
    /\ Len(routeStats) = 2
    /\ sortedRoutes(routeStats, "count", "desc") # routeStats
    /\ sortedRoutes(routeStats, "count", "none") = routeStats
    /\ sortField.stations = "name"
    /\ sortDirection.stations = "asc"

Selection(table) == IF table = "routes" THEN selectedRoutes ELSE selectedStations

\* C29: a table auto-selects its rows at most once while it is mounted, and
\* only as it mounts; afterwards its selection changes by the user's
\* checkboxes alone: unchecking every row leaves it empty, and it stays as
\* the user left it through every change of sort order.
C29_AutoSelectOnce ==
    [][ \A table \in Tables :
            /\ autoSelections'[table] <= 1
            /\ ~Remount => autoSelections'[table] = autoSelections[table]
            /\ (~Remount /\ ~UserSelects(table)) =>
                    Selection(table)' = Selection(table)
            /\ SelectAllChange(table, FALSE) => Selection(table)' = {}
            /\ \A key \in RowKeys(table, routeStats, stationStats) :
                    handleCheckboxChange(table, key, FALSE) =>
                        Selection(table)' = Selection(table) \ {key} ]_vars

\* both tables selected their rows as they mounted, the user has emptied
\* both selections and has then changed the sort order of each table
C29_Witness ==
    /\ autoSelections = [routes |-> 1, stations |-> 1]
    /\ initializedRef = [routes |-> TRUE, stations |-> TRUE]
    /\ Len(routeStats) = 2
    /\ selectedRoutes = {}
    /\ selectedStations = {}
    /\ sortDirection.routes = "asc"
    /\ sortField.stations = "net"

-----------------------------------------------------------------------------
(* The requests of the web app.  Two sessions of the app run side by side  *)
(* on the same feed and under the same clicks; they differ in their ride   *)
(* lists only.  Each keeps the set of requests it has issued: the script   *)
(* files of steps 1 and 2, the station feed of step 4, and the tiles of    *)
(* the two Leaflet maps, which are requested for the view a map shows.     *)

STATIONS_URL ==
    "https://tfl.gov.uk/tfl/syndication/feeds/cycle-hire/livecyclehireupdates.xml"
TileUrl == "https://{s}.tile.openstreetmap.org/{z}/{x}/{y}.png"

\* fetch(url)
Fetch(url) == [url |-> url, view |-> Null]

\* the tiles a TileLayer requests for a view of its map
Tiles(view) == [url |-> TileUrl, view |-> Some(view)]

\* center={[51.5074, -0.1278]} zoom={12}, in thousandths of a degree
InitialView == [center |-> Some(<<51507, -128>>), zoom |-> Some(12), bounds |-> Null]

Least(S) == CHOOSE x \in S : \A y \in S : x <= y
Greatest(S) == CHOOSE x \in S : \A y \in S : x >= y

\* map.fitBounds(L.latLngBounds(points)): the view is set to the smallest
\* box that holds the points
fitBounds(points) ==
    [center |-> Null, zoom |-> Null,
     bounds |-> Some([south |-> Least({p[1] : p \in points}),
                      west |-> Least({p[2] : p \in points}),
                      north |-> Greatest({p[1] : p \in points}),
                      east |-> Greatest({p[2] : p \in points})])]

\* MapBounds of RoutesMap: the endpoints of the routes it is given
RoutesMapView(routes) ==
    LET allPoints ==
            {<<routes[k].startStation.lat, routes[k].startStation.long>> :
                k \in 1..Len(routes)}
            \cup {<<routes[k].endStation.lat, routes[k].endStation.long>> :
                k \in 1..Len(routes)}
    IN  IF allPoints # {} THEN fitBounds(allPoints) ELSE InitialView

\* MapBounds of VisitedStationsMap: the selected stations and, with the
\* toggle at its initial value, the stations without a visit
StationsMapView(stationRows, selected) ==
    LET stationsToShow ==
            {k \in 1..Len(stationRows) :
                \/ stationRows[k].station.id \in selected
                \/ stationRows[k].total = 0}
    IN  IF stationsToShow # {}
        THEN fitBounds({<<stationRows[k].station.lat, stationRows[k].station.long>> :
                            k \in stationsToShow})
        ELSE InitialView

\* selectedRoutesData of Step4Preview
selectedRoutesData(allRoutes, selected) ==
    LET IsSelected(route) == getRouteKey(route) \in selected
    IN  SelectSeq(allRoutes, IsSelected)

\* what a step requests when it is mounted
MountRequests(step) ==
    CASE step = 1 -> {Fetch("/scripts/fetch-ride-summaries.js")}
      [] step = 2 -> {Fetch("/scripts/fetch-ride-details.js")}
      [] step = 3 -> {}
      [] step = 4 -> {Fetch(STATIONS_URL)}

\* ride lists that a session has stored: each resolves nowhere, is a round
\* trip at one station, or runs between the two stations
SessionRideLists ==
    (ViewRideLists \ {<<>>})
    \cup {<<Ride(AddrBank, AddrBank, Some(0), Some(600000))>>}

Session(rideList, step) ==
    [rides |-> rideList, currentStep |-> step, stations |-> Null,
     requests |-> MountRequests(step)]

\* Both sessions hold a ride list and so open on step 4.
InitSessions ==
    /\ sessions \in {<<Session(a, 4), Session(b, 4)>> :
                        a \in SessionRideLists, b \in SessionRideLists}
    /\ stations = <<>>
    /\ rides = <<>>
    /\ routeStats = RouteStatsMemo(<<>>, <<>>)
    /\ stationStats = StationStatsMemo(<<>>, <<>>)
    /\ address = Null
    /\ found = Null
    /\ foundStats = Null
    /\ resolved = {}
    /\ journeyBucket = "1m"
    /\ journeyChart = Null
    /\ CalendarIdle
    /\ StatsIdle
    /\ ScraperIdle
    /\ AppAt(4)
    /\ sortField = InitialSortField
    /\ sortDirection = [routes |-> "desc", stations |-> "desc"]
    /\ selectedRoutes = {}
    /\ selectedStations = {}
    /\ initializedRef = [routes |-> FALSE, stations |-> FALSE]
    /\ autoSelections = [routes |-> 0, stations |-> 0]

sessionRest == <<stations, rides, resolverVars, tableVars, journeyVars,
                 calendarVars, statsVars, scraperVars, appVars, viewVars>>

\* goToStep(step) in a session: the step is mounted and issues its requests
SessionGoToStep(session, step) ==
    [session EXCEPT !.currentStep = step, !.stations = Null,
                    !.requests = @ \cup MountRequests(step)]

\* The feed arrives in a session on step 4: the tables mount and select
\* their rows, and the two maps show their views.
SessionFeedLoaded(session, dir) ==
    CHOOSE loaded \in
        {[session EXCEPT
            !.stations = Some(dir),
            !.requests = @ \cup
                {Tiles(StationsMapView(mounted.stationStats,
                                       mounted.selectedStations)),
                 Tiles(RoutesMapView(selectedRoutesData(mounted.routeStats,
                                                        mounted.selectedRoutes)))}] :
            mounted \in {MountTables(session.rides, dir)}} : TRUE

\* the same click on the step indicator in both sessions
SessionsGoToStep ==
    /\ \E step \in 1..4 :
        /\ \A s \in 1..2 : sessions[s].currentStep # step
        /\ sessions' = [s \in 1..2 |-> SessionGoToStep(sessions[s], step)]
    /\ UNCHANGED sessionRest

\* the same feed arrives in both sessions
SessionsFeedLoaded ==
    /\ \A s \in 1..2 : sessions[s].currentStep = 4 /\ sessions[s].stations = Null
    /\ \E dir \in TableDirectories :
        sessions' = [s \in 1..2 |-> SessionFeedLoaded(sessions[s], dir)]
    /\ UNCHANGED sessionRest

NextSessions == SessionsGoToStep \/ SessionsFeedLoaded

SpecSessions == InitSessions /\ [][NextSessions]_vars

\* C21: two sessions that differ in their ride lists only have issued the
\* same requests: no request depends on the rides.
C21_RequestsIndependentOfRides ==
    sessions # <<>> => sessions[1].requests = sessions[2].requests

=============================================================================
